---- MODULE Spec2Model ----
(***************************************************************************)
(* EVChargeNet (script.js): charging-session lifecycle and slot accounting *)
(* over the Firestore collections stations, activeSessions, bookings and   *)
(* users, with the clients' local mirrors and asynchronous handlers.       *)
(***************************************************************************)
EXTENDS Integers, Sequences, FiniteSets, TLC

(* ---- bounds of the model ---- *)
NumTasks == 3        \* user handler invocations in one behaviour
MaxSlots == 1        \* largest slot count an administrator types
MaxStations == 1     \* station documents ever created
MaxSignIns == 2      \* sign-ins and registrations in one behaviour
MaxSignOuts == 1     \* sign-outs of a client whose promise is not yet resolved
MaxPrice == 2        \* largest price per kWh an administrator types
MaxTicks == 2        \* half seconds that pass in one behaviour

(* ---- program constants ---- *)
LoyaltyAward == 10   \* FieldValue.increment(10)
MsPerSecond == 1000  \* Math.floor((Date.now() - startTime) / 1000)
SecondsPerHour == 3600
ChargerKw == 25      \* (duration / 3600) * 25

Tasks == 1..NumTasks
Clients == {"c1", "c2"}
StationIds == 1..MaxStations
\* the store-assigned id of an activeSessions document: one per invocation
SessionIds == Tasks
\* the auto-id of a bookings document: one per invocation
BookingIds == Tasks
\* the values an administrator types into the two type="number" slot fields
TotalInputs == 0..MaxSlots
AvailableInputs == (-1)..MaxSlots
\* the values typed into the type="number" price field
PriceInputs == 1..MaxPrice
\* an optional number field of a document: <<>> when absent, <<n>> when set
Absent == <<>>
\* currentPrice of a station document (the program reads it and never
\* writes it): absent, zero, or a price below, at or above pricePerKwh
CurrentPriceInputs == {Absent} \cup {<<p>> : p \in 0..(MaxPrice + 1)}
\* the clocks advance in steps of half a second
TickMillis(n) == 500 * n
\* how far a client's clock is off the store's, in milliseconds
SkewInputs == {-1000, 0, 500}
\* the two options of the status select of the station form
StatusInputs == {"Operational", "Maintenance"}
NoId == 0

VARIABLES
    dbStations,      \* collection stations: id -> [total, available, queue,
                     \*   pricePerKwh, currentPrice, status]
    dbSessions,      \* collection activeSessions: id -> [userId, stationId, startTime]
    dbBookings,      \* collection bookings: id -> [userId, stationId, createdAt,
                     \*   duration, cost, kwhConsumed]
    dbUsers,         \* collection users: uid -> [role, favorites, vehicle, theme,
                     \*   loyaltyPoints, hasCompletedTour]
    stations,        \* per client: local mirror of the stations collection
    activeSessions,  \* per client: local mirror of the user's active sessions
    tasks,           \* the user handler invocations: position, locals, outcome
    nextStation,     \* number of stations documents created so far
    loggedInUser,    \* per client: the uid of the signed-in user, or NoUser
    now,             \* the store's clock, in milliseconds
    skew,            \* per client: Date.now() minus the store's clock
    adminSubmit,     \* the administrator's last form submit and its toast
    userProfile,     \* per client: the profile loaded at sign-in, {} when signed out
    accounts,        \* Firebase Authentication: the uids of the registered accounts
    currentUser,     \* per client: auth.currentUser, the uid or NoUser
    loggedInRole,    \* per client: loggedInUser.role, NoRole while undefined
    view,            \* per client: which of auth screen, user app, admin app is shown
    authTab,         \* per client: the tab of the auth screen, login or register
    authSubmit,      \* per client: the last submit of an auth form and its toast
    stationsUnsubscribe, \* per client: TRUE when the variable holds a function
    listeners,       \* per client: number of subscribed stations listeners
    lastSnapshot,    \* per client: the stations last delivered to the listener
    bookings,        \* per client: mirror of the user's bookings (ids)
    pending,         \* per client: the continuations awaiting a result, oldest
                     \*   first: [kind, user (of a query: the uid asked for), role, pc]
    signIns          \* sign-ins and registrations so far

vars == <<dbStations, dbSessions, dbBookings, dbUsers, stations, activeSessions,
          tasks, nextStation, loggedInUser, now, skew, adminSubmit, userProfile,
          accounts, currentUser, loggedInRole, view, authTab, authSubmit,
          stationsUnsubscribe, listeners, lastSnapshot, bookings, pending, signIns>>

\* the state of sign-in, registration and the auth-state callbacks
authVars == <<accounts, currentUser, loggedInRole, view, authTab, authSubmit,
              stationsUnsubscribe, listeners, lastSnapshot, bookings, pending, signIns>>

\* the clocks
clock == <<now, skew>>

store == <<dbStations, dbSessions, dbBookings, dbUsers>>

(* ---- the signed-in user of each client ---- *)
Users == {"u1", "u2"}
\* loggedInUser = null
NoUser == "null"
\* the account signed in on each client when the behaviours start
FirstUser(c) == IF c = "c1" THEN "u1" ELSE "u2"
\* loggedInUser.uid of a client
Uid(c) == loggedInUser[c]

(* ---- users documents and profiles ---- *)
\* the role select of the registration form
Roles == {"user", "admin"}
\* two of the models of the profile page's vehicle select (evModels)
VehicleInputs == {"Other", "Tata Nexon EV"}
\* the profile of a new users document, also the fallback of the auth-state
\* callback for a document without one
DefaultProfile ==
    [favorites |-> <<>>, vehicle |-> "Other", theme |-> "light",
     loyaltyPoints |-> 0, hasCompletedTour |-> FALSE]

\* the users document handleRegister sets: the role and the profile, whose
\* fields are kept beside the role
NewUserDoc(role) ==
    [role |-> role, favorites |-> DefaultProfile.favorites,
     vehicle |-> DefaultProfile.vehicle, theme |-> DefaultProfile.theme,
     loyaltyPoints |-> DefaultProfile.loyaltyPoints,
     hasCompletedTour |-> DefaultProfile.hasCompletedTour]

\* userData.profile of a users document
ProfileOf(doc) ==
    [favorites |-> doc.favorites, vehicle |-> doc.vehicle, theme |-> doc.theme,
     loyaltyPoints |-> doc.loyaltyPoints, hasCompletedTour |-> doc.hasCompletedTour]

\* userProfile = {}
NoProfile == <<>>

\* the profiles as the auth-state callback loads them for the signed-in users
LoadedProfiles ==
    [c \in Clients |-> IF Uid(c) = NoUser THEN NoProfile ELSE ProfileOf(dbUsers[Uid(c)])]

\* loggedInUser.role before the auth-state callback has set it
NoRole == ""
\* no snapshot delivered to the listener yet: differs from every mirror
NoSnapshot == [k \in {NoId} |-> [pricePerKwh |-> 0, currentPrice |-> <<>>]]
\* no auth form submitted
NoAuthSubmit == [form |-> "", uid |-> NoUser, role |-> NoRole, toast |-> ""]

\* showAppView: the auth screen is hidden unless loggedInUser is null, the
\* user app unless the role is 'user', the admin app unless it is 'admin'
ShowAppView(user, r) ==
    IF user = NoUser THEN "auth"
    ELSE IF r = "user" THEN "user"
    ELSE IF r = "admin" THEN "admin"
    ELSE "none"

\* bookings query: where('userId', '==', loggedInUser.uid)
BookingsOf(coll, uid) == {k \in DOMAIN coll : coll[k].userId = uid}

\* the clients as the completed auth-state callbacks of their users leave
\* them: role and view of the user's document, one stations listener for a
\* signed-in client, nothing awaited
SettledAuth ==
    /\ accounts = DOMAIN dbUsers
    /\ currentUser = loggedInUser
    /\ loggedInRole = [c \in Clients |->
                          IF Uid(c) = NoUser THEN NoRole ELSE dbUsers[Uid(c)].role]
    /\ view = [c \in Clients |-> ShowAppView(Uid(c), loggedInRole[c])]
    /\ authTab = [c \in Clients |-> "login"]
    /\ authSubmit = [c \in Clients |-> NoAuthSubmit]
    /\ stationsUnsubscribe = [c \in Clients |-> Uid(c) # NoUser]
    /\ listeners = [c \in Clients |-> IF Uid(c) = NoUser THEN 0 ELSE 1]
    /\ lastSnapshot = [c \in Clients |->
                          IF Uid(c) = NoUser THEN NoSnapshot ELSE stations[c]]
    /\ bookings = [c \in Clients |-> BookingsOf(dbBookings, Uid(c))]
    /\ pending = [c \in Clients |-> <<>>]
    /\ signIns = 0

(* ---- document store primitives ---- *)
Exists(coll, id) == id \in DOMAIN coll

\* doc(id).set(data) / collection.add(data) with the store-assigned id
DocSet(coll, id, data) ==
    [k \in (DOMAIN coll) \cup {id} |-> IF k = id THEN data ELSE coll[k]]

DocDeleteAll(coll, id) == <<>>

\* doc(id).delete(): deleting an absent document is not an error
DocDelete(coll, id) == [k \in (DOMAIN coll) \ {id} |-> coll[k]]

\* JavaScript Array.prototype.indexOf: 0-based, -1 when absent
RECURSIVE IndexOfFrom(_, _, _)
IndexOfFrom(arr, x, i) ==
    IF i > Len(arr) THEN -1
    ELSE IF arr[i] = x THEN i - 1
    ELSE IndexOfFrom(arr, x, i + 1)

IndexOf(arr, x) == IndexOfFrom(arr, x, 1)

Includes(arr, x) == IndexOf(arr, x) > -1

ArrayUnionPrepend(arr, x) == IF Includes(arr, x) THEN arr ELSE <<x>> \o arr

ArrayUnionAlways(arr, x) == Append(arr, x)

\* FieldValue.arrayUnion(x): adds x at the end unless already present
ArrayUnion(arr, x) == IF Includes(arr, x) THEN arr ELSE Append(arr, x)

\* snapshot.docs.map(doc => ({ id: doc.id, ...doc.data() })): the handlers
\* modelled here look a station up in the mirror by id and read its pricing,
\* so the mirror keeps these fields of the mirrored documents
MirrorOf(coll) ==
    [k \in DOMAIN coll |-> [pricePerKwh |-> coll[k].pricePerKwh,
                            currentPrice |-> coll[k].currentPrice]]

\* activeSessions query: where('userId', '==', loggedInUser.uid)
SessionsOf(coll, uid) == {k \in DOMAIN coll : coll[k].userId = uid}

\* a handler invocation that has not been issued yet
NewTask ==
    [pc |-> "new", op |-> "none", client |-> "c1", stationId |-> NoId,
     sessionId |-> NoId, userId |-> "", readAvail |-> 0, valid |-> FALSE,
     res |-> "", was |-> FALSE,
     userRef |-> "", stationData |-> [pricePerKwh |-> 0, currentPrice |-> Absent],
     duration |-> 0, kwhConsumed |-> [num |-> 0, den |-> SecondsPerHour],
     cost |-> [num |-> 0, den |-> SecondsPerHour]]

\* invocations are numbered in the order in which they are issued
Issuable(t) ==
    /\ tasks[t].pc = "new"
    /\ IF t = 1 THEN TRUE ELSE tasks[t - 1].pc # "new"

\* the handler returns: its outcome is the thrown message or "committed"
Done(tk, res) == [tk EXCEPT !.pc = "done", !.res = res]

\* no form has been submitted yet
NoSubmit == [stationId |-> NoId, totalSlots |-> 0, availableSlots |-> 0, toast |-> ""]

Init ==
    /\ dbStations = <<>>
    /\ dbSessions = <<>>
    /\ dbBookings = <<>>
    /\ dbUsers = [u \in Users |-> NewUserDoc("user")]
    /\ stations = [c \in Clients |-> <<>>]
    /\ activeSessions = [c \in Clients |-> {}]
    /\ tasks = [t \in Tasks |-> NewTask]
    /\ nextStation = 0
    /\ loggedInUser = [c \in Clients |-> FirstUser(c)]
    /\ now = 0
    /\ skew = [c \in Clients |-> 0]
    /\ adminSubmit = NoSubmit
    /\ userProfile = LoadedProfiles
    /\ SettledAuth

(* ---- Firestore transaction bookkeeping ---- *)
TxnValidAlways(tk) == TRUE

\* commit-time validation of the documents a transaction has read: the commit
\* is accepted only if none of them was written since the read
TxnValid(tk) == tk.valid

\* a write to stations/sid invalidates every transaction that has read it
Invalidate(tk, sid) ==
    [t \in Tasks |->
        IF tk[t].pc = "start_commit" /\ tk[t].stationId = sid
        THEN [tk[t] EXCEPT !.valid = FALSE]
        ELSE tk[t]]

(* ---- startCharging(stationId) ---- *)
\* booking-form submit handler: await startCharging(stationId)
StartCharging(t, c, sid) ==
    /\ Issuable(t)
    /\ tasks' = [tasks EXCEPT ![t] =
                    [NewTask EXCEPT !.pc = "start_get", !.op = "startCharging",
                                    !.client = c, !.stationId = sid]]
    /\ UNCHANGED <<dbStations, dbSessions, dbBookings, dbUsers, stations,
                   activeSessions, nextStation>>
    /\ UNCHANGED <<authVars, loggedInUser, clock, adminSubmit, userProfile>>

NoSlotsOnlyAtZero(available) == available = 0

\* the precondition of the decrement: if (available <= 0) throw
NoSlots(available) == available <= 0

StartGetUnchecked(t) ==
    LET tk == tasks[t]
        sid == tk.stationId
    IN
    /\ tk.pc = "start_get"
    /\ IF ~Exists(dbStations, sid)
       THEN tasks' = [tasks EXCEPT ![t] = Done(tk, "TypeError")]
       ELSE IF NoSlots(dbStations[sid].available)
       THEN tasks' = [tasks EXCEPT ![t] =
                         Done([tk EXCEPT !.readAvail = dbStations[sid].available],
                              "No available slots!")]
       ELSE IF Uid(tk.client) = NoUser
       THEN tasks' = [tasks EXCEPT ![t] = Done(tk, "TypeError")]
       ELSE tasks' = [tasks EXCEPT ![t] =
                         [tk EXCEPT !.pc = "start_commit",
                                    !.readAvail = dbStations[sid].available,
                                    !.valid = TRUE,
                                    !.userId = Uid(tk.client)]]
    /\ UNCHANGED <<dbStations, dbSessions, dbBookings, dbUsers, stations,
                   activeSessions, nextStation>>
    /\ UNCHANGED <<authVars, loggedInUser, clock, adminSubmit, userProfile>>

StartGetOnePerUser(t) ==
    LET tk == tasks[t]
        sid == tk.stationId
    IN
    /\ tk.pc = "start_get"
    /\ IF ~Exists(dbStations, sid)
       THEN tasks' = [tasks EXCEPT ![t] = Done(tk, "Station does not exist!")]
       ELSE IF NoSlots(dbStations[sid].available)
       THEN tasks' = [tasks EXCEPT ![t] =
                         Done([tk EXCEPT !.readAvail = dbStations[sid].available],
                              "No available slots!")]
       ELSE IF Uid(tk.client) = NoUser
       THEN tasks' = [tasks EXCEPT ![t] = Done(tk, "TypeError")]
       ELSE IF SessionsOf(dbSessions, Uid(tk.client)) # {}
       THEN tasks' = [tasks EXCEPT ![t] = Done(tk, "Session already active!")]
       ELSE tasks' = [tasks EXCEPT ![t] =
                         [tk EXCEPT !.pc = "start_commit",
                                    !.readAvail = dbStations[sid].available,
                                    !.valid = TRUE,
                                    !.userId = Uid(tk.client)]]
    /\ UNCHANGED <<dbStations, dbSessions, dbBookings, dbUsers, stations,
                   activeSessions, nextStation>>
    /\ UNCHANGED <<authVars, loggedInUser, clock, adminSubmit, userProfile>>

\* transaction.get(stationRef), the two throws of the update function, and
\* loggedInUser.uid read for sessionData (a TypeError when nobody is signed in)
StartGet(t) ==
    LET tk == tasks[t]
        sid == tk.stationId
    IN
    /\ tk.pc = "start_get"
    /\ IF ~Exists(dbStations, sid)
       THEN tasks' = [tasks EXCEPT ![t] = Done(tk, "Station does not exist!")]
       ELSE IF NoSlots(dbStations[sid].available)
       THEN tasks' = [tasks EXCEPT ![t] =
                         Done([tk EXCEPT !.readAvail = dbStations[sid].available],
                              "No available slots!")]
       ELSE IF Uid(tk.client) = NoUser
       THEN tasks' = [tasks EXCEPT ![t] = Done(tk, "TypeError")]
       ELSE tasks' = [tasks EXCEPT ![t] =
                         [tk EXCEPT !.pc = "start_commit",
                                    !.readAvail = dbStations[sid].available,
                                    !.valid = TRUE,
                                    !.userId = Uid(tk.client)]]
    /\ UNCHANGED <<dbStations, dbSessions, dbBookings, dbUsers, stations,
                   activeSessions, nextStation>>
    /\ UNCHANGED <<authVars, loggedInUser, clock, adminSubmit, userProfile>>

\* transaction.update(stationRef, {"slots.available": available - 1})
StartWrite(st, readAvail) == [st EXCEPT !.available = readAvail - 1]

\* await fetchUserData(): nothing when nobody is signed in, else the
\* activeSessions mirror becomes the sessions of the signed-in user
FetchUserData(mirror, c, coll) ==
    IF Uid(c) = NoUser THEN mirror
    ELSE [mirror EXCEPT ![c] = SessionsOf(coll, Uid(c))]

\* commit of the startCharging transaction (or the re-run of its update
\* function after a conflict, with fresh locals), followed by await
\* fetchUserData(); a commit that passes the validation finds the station as
\* it was read
StartCommit(t) ==
    LET tk == tasks[t]
        sid == tk.stationId
    IN
    /\ tk.pc = "start_commit"
    /\ IF TxnValid(tk) /\ Exists(dbStations, sid)
       THEN /\ dbStations' = [dbStations EXCEPT ![sid] = StartWrite(@, tk.readAvail)]
            /\ dbSessions' = DocSet(dbSessions, t,
                                    [userId |-> tk.userId, stationId |-> sid,
                                     startTime |-> now])
            /\ activeSessions' = FetchUserData(activeSessions, tk.client, dbSessions')
            /\ tasks' = [Invalidate(tasks, sid) EXCEPT ![t] =
                            Done([tk EXCEPT !.sessionId = t], "committed")]
       ELSE /\ tasks' = [tasks EXCEPT ![t] = [tk EXCEPT !.pc = "start_get", !.userId = ""]]
            /\ UNCHANGED <<dbStations, dbSessions, activeSessions>>
    /\ UNCHANGED <<dbBookings, dbUsers, stations, nextStation>>
    /\ UNCHANGED <<authVars, loggedInUser, clock, adminSubmit, userProfile>>

(* ---- the billing arithmetic of stopCharging ---- *)
\* Date.now() of a client
DateNow(c) == now + skew[c]

\* Math.floor((Date.now() - startTime) / 1000)
Duration(dateNow, startTime) == (dateNow - startTime) \div MsPerSecond

\* energy and cost are real numbers, kept exactly as fractions num/den
\* (duration / 3600) * 25
KwhConsumed(duration) == [num |-> duration * ChargerKw, den |-> SecondsPerHour]

\* JavaScript truthiness of an optional number field
Truthy(field) == field # Absent /\ field[1] # 0

EffectivePriceBaseOnly(stationData) == stationData.pricePerKwh

\* stationData.currentPrice || stationData.pricePerKwh
EffectivePrice(stationData) ==
    IF Truthy(stationData.currentPrice)
    THEN stationData.currentPrice[1]
    ELSE stationData.pricePerKwh

\* kwhConsumed * (stationData.currentPrice || stationData.pricePerKwh)
Cost(kwhConsumed, stationData) ==
    [num |-> kwhConsumed.num * EffectivePrice(stationData), den |-> kwhConsumed.den]

(* ---- stopCharging(sessionId) ---- *)
\* click on #stop-charging-btn, whose data-id is a session of the local mirror
StopCharging(t, c, sessId) ==
    /\ Issuable(t)
    /\ sessId \in activeSessions[c]
    /\ tasks' = [tasks EXCEPT ![t] =
                    [NewTask EXCEPT !.pc = "stop_get", !.op = "stopCharging",
                                    !.client = c, !.sessionId = sessId]]
    /\ UNCHANGED <<dbStations, dbSessions, dbBookings, dbUsers, stations,
                   activeSessions, nextStation>>
    /\ UNCHANGED <<authVars, loggedInUser, clock, adminSubmit, userProfile>>

StopGetUnchecked(t) ==
    LET tk == tasks[t]
        sessId == tk.sessionId
    IN
    /\ tk.pc = "stop_get"
    /\ IF ~Exists(dbSessions, sessId)
       THEN tasks' = [tasks EXCEPT ![t] = Done(tk, "TypeError")]
       ELSE IF Uid(tk.client) = NoUser
       THEN tasks' = [tasks EXCEPT ![t] = Done(tk, "TypeError")]
       ELSE IF dbSessions[sessId].stationId \notin DOMAIN stations[tk.client]
       THEN tasks' = [tasks EXCEPT ![t] =
                         Done([tk EXCEPT !.stationId = dbSessions[sessId].stationId],
                              "TypeError")]
       ELSE LET session == dbSessions[sessId]
                stationData == stations[tk.client][session.stationId]
                duration == Duration(DateNow(tk.client), session.startTime)
                kwhConsumed == KwhConsumed(duration)
            IN
            tasks' = [tasks EXCEPT ![t] =
                         [tk EXCEPT !.pc = "stop_txn",
                                    !.stationId = session.stationId,
                                    !.userId = session.userId,
                                    !.userRef = Uid(tk.client),
                                    !.stationData = stationData,
                                    !.duration = duration,
                                    !.kwhConsumed = kwhConsumed,
                                    !.cost = Cost(kwhConsumed, stationData)]]
    /\ UNCHANGED <<dbStations, dbSessions, dbBookings, dbUsers, stations,
                   activeSessions, nextStation>>
    /\ UNCHANGED <<authVars, loggedInUser, clock, adminSubmit, userProfile>>

\* await sessionRef.get(), the existence check, userRef from
\* loggedInUser.uid (a TypeError when nobody is signed in), duration, energy
\* and cost from the client's clock and the station of the local mirror (a
\* TypeError when it is not there)
StopGet(t) ==
    LET tk == tasks[t]
        sessId == tk.sessionId
    IN
    /\ tk.pc = "stop_get"
    /\ IF ~Exists(dbSessions, sessId)
       THEN tasks' = [tasks EXCEPT ![t] = Done(tk, "Session not found!")]
       ELSE IF Uid(tk.client) = NoUser
       THEN tasks' = [tasks EXCEPT ![t] = Done(tk, "TypeError")]
       ELSE IF dbSessions[sessId].stationId \notin DOMAIN stations[tk.client]
       THEN tasks' = [tasks EXCEPT ![t] =
                         Done([tk EXCEPT !.stationId = dbSessions[sessId].stationId],
                              "TypeError")]
       ELSE LET session == dbSessions[sessId]
                stationData == stations[tk.client][session.stationId]
                duration == Duration(DateNow(tk.client), session.startTime)
                kwhConsumed == KwhConsumed(duration)
            IN
            tasks' = [tasks EXCEPT ![t] =
                         [tk EXCEPT !.pc = "stop_txn",
                                    !.stationId = session.stationId,
                                    !.userId = session.userId,
                                    !.userRef = Uid(tk.client),
                                    !.stationData = stationData,
                                    !.duration = duration,
                                    !.kwhConsumed = kwhConsumed,
                                    !.cost = Cost(kwhConsumed, stationData)]]
    /\ UNCHANGED <<dbStations, dbSessions, dbBookings, dbUsers, stations,
                   activeSessions, nextStation>>
    /\ UNCHANGED <<authVars, loggedInUser, clock, adminSubmit, userProfile>>

StopTxnOkAlways(sid, uid) == TRUE

StopTxnOkUserOnly(sid, uid) == Exists(dbUsers, uid)

\* transaction.update() of a document that does not exist fails the commit
StopTxnOk(sid, uid) == Exists(dbStations, sid) /\ Exists(dbUsers, uid)

IncrementAvailablePromoting(coll, sid) ==
    IF Exists(coll, sid)
    THEN [coll EXCEPT ![sid] = [@ EXCEPT !.available = @ + 1,
                                         !.queue = IF @ = <<>> THEN @ ELSE Tail(@)]]
    ELSE coll

\* update(stationRef, {"slots.available": FieldValue.increment(1)})
IncrementAvailable(coll, sid) ==
    IF Exists(coll, sid)
    THEN [coll EXCEPT ![sid] = [@ EXCEPT !.available = @ + 1]]
    ELSE coll

\* update(userRef, {"profile.loyaltyPoints": FieldValue.increment(10)})
IncrementLoyalty(coll, uid) ==
    IF Exists(coll, uid)
    THEN [coll EXCEPT ![uid] = [@ EXCEPT !.loyaltyPoints = @ + LoyaltyAward]]
    ELSE coll

BookingSetReplacing(coll, id, data) == [k \in {id} |-> data]

\* bookingRef = db.collection('bookings').doc(); transaction.set(bookingRef,
\* data): a new document under a fresh id
BookingSet(coll, id, data) == DocSet(coll, id, data)

\* userProfile.loyaltyPoints += 10 after the commit; with nobody signed in
\* the log line before it throws (loggedInUser.username) and it is skipped
AwardLocally(profiles, c) ==
    IF Uid(c) = NoUser THEN profiles
    ELSE [profiles EXCEPT ![c] = [@ EXCEPT !.loyaltyPoints = @ + LoyaltyAward]]

\* the stopCharging transaction: four blind writes, committed together or
\* rejected together, followed by userProfile.loyaltyPoints += 10 and await
\* fetchUserData()
StopTxn(t) ==
    LET tk == tasks[t]
        sid == tk.stationId
        uid == tk.userRef
    IN
    /\ tk.pc = "stop_txn"
    /\ IF StopTxnOk(sid, uid)
       THEN /\ dbSessions' = DocDelete(dbSessions, tk.sessionId)
            /\ dbStations' = IncrementAvailable(dbStations, sid)
            /\ dbUsers' = IncrementLoyalty(dbUsers, uid)
            /\ dbBookings' = BookingSet(dbBookings, t,
                                        [userId |-> tk.userId, stationId |-> sid,
                                         createdAt |-> now, duration |-> tk.duration,
                                         cost |-> tk.cost,
                                         kwhConsumed |-> tk.kwhConsumed])
            /\ userProfile' = AwardLocally(userProfile, tk.client)
            /\ activeSessions' = FetchUserData(activeSessions, tk.client, dbSessions')
            /\ tasks' = [Invalidate(tasks, sid) EXCEPT ![t] =
                            Done([tk EXCEPT !.was = ~Exists(dbSessions, tk.sessionId)],
                                 "committed")]
       ELSE /\ tasks' = [tasks EXCEPT ![t] = Done(tk, "Failed to stop session.")]
            /\ UNCHANGED <<dbSessions, dbStations, dbUsers, dbBookings, activeSessions,
                           userProfile>>
    /\ UNCHANGED <<stations, nextStation>>
    /\ UNCHANGED <<authVars, loggedInUser, clock, adminSubmit>>

(* ---- joinQueue(stationId) ---- *)
JoinQueueReserving(st, uid) ==
    [st EXCEPT !.queue = ArrayUnion(@, uid), !.available = @ - 1]

JoinQueuePrepending(st, uid) == [st EXCEPT !.queue = ArrayUnionPrepend(@, uid)]

JoinQueueAlways(st, uid) == [st EXCEPT !.queue = ArrayUnionAlways(@, uid)]

\* stationRef.update({queue: FieldValue.arrayUnion(loggedInUser.uid)})
JoinQueueUpdate(st, uid) == [st EXCEPT !.queue = ArrayUnion(@, uid)]

\* click on .join-queue-btn: await joinQueue(stationId)
JoinQueue(t, c, sid) ==
    /\ Issuable(t)
    /\ LET tk == [NewTask EXCEPT !.op = "joinQueue", !.client = c, !.stationId = sid] IN
       IF Exists(dbStations, sid)
       THEN /\ dbStations' = [dbStations EXCEPT ![sid] = JoinQueueUpdate(@, Uid(c))]
            /\ tasks' = [Invalidate(tasks, sid) EXCEPT ![t] =
                            Done([tk EXCEPT !.was = Includes(dbStations[sid].queue, Uid(c))],
                                 "You've been added to the queue.")]
       ELSE /\ tasks' = [tasks EXCEPT ![t] = Done(tk, "Could not join queue.")]
            /\ UNCHANGED dbStations
    /\ UNCHANGED <<dbSessions, dbBookings, dbUsers, stations, activeSessions, nextStation>>
    /\ UNCHANGED <<authVars, loggedInUser, clock, adminSubmit, userProfile>>

(* ---- the stations snapshot listener ---- *)
\* onSnapshot callback of fetchAndListenForStations; the listener is
\* attached once a user is signed in and detached at sign-out
StationsSnapshot(c) ==
    /\ Uid(c) # NoUser
    /\ stations[c] # MirrorOf(dbStations)
    /\ stations' = [stations EXCEPT ![c] = MirrorOf(dbStations)]
    /\ UNCHANGED <<dbStations, dbSessions, dbBookings, dbUsers, activeSessions,
                   tasks, nextStation>>
    /\ UNCHANGED <<authVars, loggedInUser, clock, adminSubmit, userProfile>>

(* ---- the administrator's station management ---- *)
SlotsRejectedNever(totalSlots, availableSlots) == FALSE

\* if (availableSlots > totalSlots) { showToast(...); return; }
SlotsRejected(totalSlots, availableSlots) == availableSlots > totalSlots

\* the station ids the administrator's page can still show in a modal or on
\* a button: those of every station document created so far (the page is
\* rendered from a mirror that may be arbitrarily old)
AdminKnown == 1..nextStation

\* the toast of the admin-station-form submit handler
AdminToast(stationId, totalSlots, availableSlots) ==
    IF SlotsRejected(totalSlots, availableSlots)
    THEN "Available slots cannot be greater than total slots."
    ELSE IF stationId = NoId THEN "Station created!"
    ELSE IF Exists(dbStations, stationId) THEN "Station updated!"
    ELSE "Failed to save station."

\* the submits that reach the store and succeed there
AdminAccepted(stationId, totalSlots, availableSlots) ==
    AdminToast(stationId, totalSlots, availableSlots)
        \in {"Station created!", "Station updated!"}

\* doc(stationId).update(formData) / formData.queue = [], add(formData): the
\* update replaces the fields of formData and leaves queue and currentPrice
AdminStationWrite(stationId, totalSlots, availableSlots, pricePerKwh, status) ==
    IF stationId # NoId
    THEN /\ dbStations' = [dbStations EXCEPT ![stationId] =
                              [@ EXCEPT !.total = totalSlots,
                                        !.available = availableSlots,
                                        !.pricePerKwh = pricePerKwh,
                                        !.status = status]]
         /\ tasks' = Invalidate(tasks, stationId)
         /\ UNCHANGED nextStation
    ELSE /\ dbStations' = DocSet(dbStations, nextStation + 1,
                                 [total |-> totalSlots, available |-> availableSlots,
                                  queue |-> <<>>, pricePerKwh |-> pricePerKwh,
                                  currentPrice |-> Absent, status |-> status])
         /\ nextStation' = nextStation + 1
         /\ UNCHANGED tasks

\* admin-station-form submit handler, for the station the modal was opened
\* on (the hidden station-id field, empty for "Add Station") and the values
\* the fields hold at submit; here a rejected submit and an update of a
\* station that no longer exists, which write nothing, are no steps
AdminStationSubmit(stationId, totalSlots, availableSlots, pricePerKwh, status) ==
    /\ stationId \in AdminKnown \cup {NoId}
    /\ stationId = NoId => nextStation < MaxStations
    /\ AdminAccepted(stationId, totalSlots, availableSlots)
    /\ AdminStationWrite(stationId, totalSlots, availableSlots, pricePerKwh, status)
    /\ UNCHANGED <<dbSessions, dbBookings, dbUsers, stations, activeSessions>>
    /\ UNCHANGED <<authVars, loggedInUser, clock, adminSubmit, userProfile>>

\* the same handler with its form values and its toast kept, so that a
\* rejected or failed submit is a step too
AdminFormSubmit(stationId, totalSlots, availableSlots, pricePerKwh, status) ==
    /\ stationId \in AdminKnown \cup {NoId}
    /\ stationId = NoId => nextStation < MaxStations
    /\ adminSubmit' = [stationId |-> stationId, totalSlots |-> totalSlots,
                       availableSlots |-> availableSlots,
                       toast |-> AdminToast(stationId, totalSlots, availableSlots)]
    /\ IF AdminAccepted(stationId, totalSlots, availableSlots)
       THEN AdminStationWrite(stationId, totalSlots, availableSlots, pricePerKwh, status)
       ELSE UNCHANGED <<dbStations, tasks, nextStation>>
    /\ UNCHANGED <<dbSessions, dbBookings, dbUsers, stations, activeSessions>>
    /\ UNCHANGED <<authVars, loggedInUser, clock, userProfile>>

\* click on .delete-station-btn, confirmed
DeleteStation(sid) ==
    /\ sid \in AdminKnown
    /\ Exists(dbStations, sid)
    /\ dbStations' = DocDelete(dbStations, sid)
    /\ tasks' = Invalidate(tasks, sid)
    /\ UNCHANGED <<dbSessions, dbBookings, dbUsers, stations, activeSessions, nextStation>>
    /\ UNCHANGED <<authVars, loggedInUser, clock, adminSubmit, userProfile>>

(* ---- specification ---- *)
\* the slot accounting does not read the pricing: in its behaviours the
\* administrator types one price
ListPrices == {MaxPrice}
\* nor the status: the select is left at its first option
ListStatus == {"Operational"}

Next ==
    \/ \E t \in Tasks, c \in Clients, sid \in StationIds : StartCharging(t, c, sid)
    \/ \E t \in Tasks : StartGet(t)
    \/ \E t \in Tasks : StartCommit(t)
    \/ \E t \in Tasks, c \in Clients, sessId \in SessionIds : StopCharging(t, c, sessId)
    \/ \E t \in Tasks : StopGet(t)
    \/ \E t \in Tasks : StopTxn(t)
    \/ \E t \in Tasks, c \in Clients, sid \in StationIds : JoinQueue(t, c, sid)
    \/ \E c \in Clients : StationsSnapshot(c)
    \/ \E sid \in StationIds \cup {NoId}, totalSlots \in TotalInputs,
          availableSlots \in AvailableInputs, pricePerKwh \in ListPrices,
          status \in ListStatus :
          AdminStationSubmit(sid, totalSlots, availableSlots, pricePerKwh, status)
    \/ \E sid \in StationIds : DeleteStation(sid)

Spec == Init /\ [][Next]_vars

(* ---- N startCharging calls against freshly created stations ---- *)
\* every station as the administrator's form creates it with all its slots
\* free; the only handler issued is startCharging
InitStart ==
    /\ dbStations \in [StationIds ->
                         {[total |-> n, available |-> n, queue |-> <<>>,
                           pricePerKwh |-> MaxPrice, currentPrice |-> Absent,
                           status |-> "Operational"] :
                             n \in TotalInputs}]
    /\ dbSessions = <<>>
    /\ dbBookings = <<>>
    /\ dbUsers = [u \in Users |-> NewUserDoc("user")]
    /\ stations = [c \in Clients |-> MirrorOf(dbStations)]
    /\ activeSessions = [c \in Clients |-> {}]
    /\ tasks = [t \in Tasks |-> NewTask]
    /\ nextStation = MaxStations
    /\ loggedInUser = [c \in Clients |-> FirstUser(c)]
    /\ now = 0
    /\ skew = [c \in Clients |-> 0]
    /\ adminSubmit = NoSubmit
    /\ userProfile = LoadedProfiles
    /\ SettledAuth

NextStart ==
    \/ \E t \in Tasks, c \in Clients, sid \in StationIds : StartCharging(t, c, sid)
    \/ \E t \in Tasks : StartGet(t)
    \/ \E t \in Tasks : StartCommit(t)

SpecStart == InitStart /\ [][NextStart]_vars

(* ---- the administrator's form with its values and toast ---- *)
\* every submit of the station form, the deletions, and one customer's
\* client queueing (the form never reads or writes the queue)
NextAdmin ==
    \/ \E sid \in StationIds \cup {NoId}, totalSlots \in TotalInputs,
          availableSlots \in AvailableInputs, pricePerKwh \in ListPrices,
          status \in ListStatus :
          AdminFormSubmit(sid, totalSlots, availableSlots, pricePerKwh, status)
    \/ \E sid \in StationIds : DeleteStation(sid)
    \/ \E t \in Tasks, sid \in StationIds : JoinQueue(t, "c1", sid)

SpecAdmin == Init /\ [][NextAdmin]_vars

(* ---- a user starting a second session ---- *)
\* the slots of a station that two sessions fit into
SlotsForTwo == MaxSlots + 1

\* every station exists with room for two sessions
InitTwice ==
    /\ dbStations = [sid \in StationIds |->
                        [total |-> SlotsForTwo, available |-> SlotsForTwo,
                         queue |-> <<>>, pricePerKwh |-> MaxPrice,
                         currentPrice |-> Absent, status |-> "Operational"]]
    /\ dbSessions = <<>>
    /\ dbBookings = <<>>
    /\ dbUsers = [u \in Users |-> NewUserDoc("user")]
    /\ stations = [c \in Clients |-> MirrorOf(dbStations)]
    /\ activeSessions = [c \in Clients |-> {}]
    /\ tasks = [t \in Tasks |-> NewTask]
    /\ nextStation = MaxStations
    /\ loggedInUser = [c \in Clients |-> FirstUser(c)]
    /\ now = 0
    /\ skew = [c \in Clients |-> 0]
    /\ adminSubmit = NoSubmit
    /\ userProfile = LoadedProfiles
    /\ SettledAuth

\* the users start and stop sessions; no administrator acts
NextTwice ==
    \/ \E t \in Tasks, c \in Clients, sid \in StationIds : StartCharging(t, c, sid)
    \/ \E t \in Tasks : StartGet(t)
    \/ \E t \in Tasks : StartCommit(t)
    \/ \E t \in Tasks, c \in Clients, sessId \in SessionIds : StopCharging(t, c, sessId)
    \/ \E t \in Tasks : StopGet(t)
    \/ \E t \in Tasks : StopTxn(t)

SpecTwice == InitTwice /\ [][NextTwice]_vars

(* ---- sign-out and sign-in on a client ---- *)
\* handleLogout and the auth-state callback with no user: the signed-in
\* user and the mirrors are cleared and the stations listener is detached
SignOut(c) ==
    /\ Uid(c) # NoUser
    /\ loggedInUser' = [loggedInUser EXCEPT ![c] = NoUser]
    /\ stations' = [stations EXCEPT ![c] = <<>>]
    /\ activeSessions' = [activeSessions EXCEPT ![c] = {}]
    /\ userProfile' = [userProfile EXCEPT ![c] = NoProfile]
    /\ UNCHANGED <<dbStations, dbSessions, dbBookings, dbUsers, tasks, nextStation,
                   clock, adminSubmit, authVars>>

\* handleLogin and the auth-state callback with a user: loggedInUser = user,
\* the stations listener is attached (its first snapshot is a later step)
\* and fetchUserData loads the user's active sessions
SignIn(c, uid) ==
    /\ Uid(c) = NoUser
    /\ loggedInUser' = [loggedInUser EXCEPT ![c] = uid]
    /\ activeSessions' = [activeSessions EXCEPT ![c] = SessionsOf(dbSessions, uid)]
    /\ userProfile' = [userProfile EXCEPT ![c] = ProfileOf(dbUsers[uid])]
    /\ UNCHANGED <<dbStations, dbSessions, dbBookings, dbUsers, stations, tasks,
                   nextStation, clock, adminSubmit, authVars>>

\* start and stop on clients whose user may sign out and another sign in
NextAuth ==
    \/ \E t \in Tasks, c \in Clients, sid \in StationIds : StartCharging(t, c, sid)
    \/ \E t \in Tasks : StartGet(t)
    \/ \E t \in Tasks : StartCommit(t)
    \/ \E t \in Tasks, c \in Clients, sessId \in SessionIds : StopCharging(t, c, sessId)
    \/ \E t \in Tasks : StopGet(t)
    \/ \E t \in Tasks : StopTxn(t)
    \/ \E c \in Clients : StationsSnapshot(c)
    \/ \E c \in Clients : SignOut(c)
    \/ \E c \in Clients, uid \in Users : SignIn(c, uid)

SpecAuth == InitStart /\ [][NextAuth]_vars

(* ---- billing: the clocks and the pricing between start and stop ---- *)
\* half a second passes
Tick ==
    /\ now < TickMillis(MaxTicks)
    /\ now' = now + TickMillis(1)
    /\ UNCHANGED <<dbStations, dbSessions, dbBookings, dbUsers, stations,
                   activeSessions, tasks, nextStation, loggedInUser, skew, adminSubmit,
                   userProfile, authVars>>

\* every station exists with its slots free and a pricing of any shape; the
\* first client's clock is off the store's by any of SkewInputs
InitBilling ==
    /\ dbStations \in [StationIds ->
                         {[total |-> MaxSlots, available |-> MaxSlots, queue |-> <<>>,
                           pricePerKwh |-> p, currentPrice |-> cp,
                           status |-> "Operational"] :
                             p \in PriceInputs, cp \in CurrentPriceInputs}]
    /\ dbSessions = <<>>
    /\ dbBookings = <<>>
    /\ dbUsers = [u \in Users |-> NewUserDoc("user")]
    /\ stations = [c \in Clients |-> MirrorOf(dbStations)]
    /\ activeSessions = [c \in Clients |-> {}]
    /\ tasks = [t \in Tasks |-> NewTask]
    /\ nextStation = MaxStations
    /\ loggedInUser = [c \in Clients |-> FirstUser(c)]
    /\ now = 0
    /\ skew \in [Clients -> SkewInputs]
    /\ \A c \in Clients : c # "c1" => skew[c] = 0
    /\ adminSubmit = NoSubmit
    /\ userProfile = LoadedProfiles
    /\ SettledAuth

\* the administrator saves the edit form of a station with a price typed
\* anew and the slot fields as the store holds them
AdminPriceEdit(sid, pricePerKwh) ==
    /\ Exists(dbStations, sid)
    /\ AdminStationSubmit(sid, dbStations[sid].total, dbStations[sid].available,
                          pricePerKwh, dbStations[sid].status)

\* the handlers between start and stop, the snapshot listener, the clock,
\* and the administrator changing prices
NextBilling ==
    \/ \E t \in Tasks, c \in Clients, sid \in StationIds : StartCharging(t, c, sid)
    \/ \E t \in Tasks : StartGet(t)
    \/ \E t \in Tasks : StartCommit(t)
    \/ \E t \in Tasks, c \in Clients, sessId \in SessionIds : StopCharging(t, c, sessId)
    \/ \E t \in Tasks : StopGet(t)
    \/ \E t \in Tasks : StopTxn(t)
    \/ \E c \in Clients : StationsSnapshot(c)
    \/ \E sid \in StationIds, pricePerKwh \in PriceInputs : AdminPriceEdit(sid, pricePerKwh)
    \/ Tick

SpecBilling == InitBilling /\ [][NextBilling]_vars

(* ---- the station list of the user app ---- *)
GetStationStatusSlotsFirst(station) ==
    IF station.available = 0
    THEN [text |-> "Busy", color |-> "var(--red)"]
    ELSE IF station.status # "Operational"
    THEN [text |-> "Under Maintenance", color |-> "var(--yellow)"]
    ELSE [text |-> "Available", color |-> "var(--green)"]

\* getStationStatus(station)
GetStationStatus(station) ==
    IF station.status # "Operational"
    THEN [text |-> "Under Maintenance", color |-> "var(--yellow)"]
    ELSE IF station.available = 0
    THEN [text |-> "Busy", color |-> "var(--red)"]
    ELSE [text |-> "Available", color |-> "var(--green)"]

\* actionButtonHtml of a station card of renderStationList, by its label
ActionButton(station, uid) ==
    LET status == GetStationStatus(station)
        isInQueue == Includes(station.queue, uid)
    IN
    IF status.text = "Busy"
    THEN IF isInQueue THEN "In Queue" ELSE "Join Queue"
    ELSE IF status.text = "Available" THEN "Book Now"
    ELSE "Unavailable"

\* renderStationList(): one card per station of the local mirror (with the
\* filter bar left empty), here the label of its action button
RenderStationList(c) ==
    [sid \in DOMAIN stations[c] |-> ActionButton(stations[c][sid], Uid(c))]

StationDocsSnapshotMerging(c) ==
    /\ Uid(c) # NoUser
    /\ stations[c] # dbStations
    /\ stations' = [stations EXCEPT ![c] =
                       [k \in (DOMAIN @) \cup (DOMAIN dbStations) |->
                           IF k \in DOMAIN dbStations THEN dbStations[k] ELSE @[k]]]
    /\ UNCHANGED <<dbStations, dbSessions, dbBookings, dbUsers, activeSessions,
                   tasks, nextStation>>
    /\ UNCHANGED <<authVars, loggedInUser, clock, adminSubmit, userProfile>>

\* onSnapshot callback of fetchAndListenForStations with the whole
\* documents kept, as the station list reads them; the list is rendered
\* anew from the mirror
StationDocsSnapshot(c) ==
    /\ Uid(c) # NoUser
    /\ stations[c] # dbStations
    /\ stations' = [stations EXCEPT ![c] = dbStations]
    /\ UNCHANGED <<dbStations, dbSessions, dbBookings, dbUsers, activeSessions,
                   tasks, nextStation>>
    /\ UNCHANGED <<authVars, loggedInUser, clock, adminSubmit, userProfile>>

\* click on a .book-slot-btn of the station list: openBookingModal(id)
BookSlotClick(t, c, sid) ==
    /\ Issuable(t)
    /\ sid \in DOMAIN stations[c]
    /\ RenderStationList(c)[sid] = "Book Now"
    /\ \A u \in Tasks : ~(tasks[u].pc = "modal" /\ tasks[u].client = c)
    /\ tasks' = [tasks EXCEPT ![t] =
                    [NewTask EXCEPT !.pc = "modal", !.op = "startCharging",
                                    !.client = c, !.stationId = sid]]
    /\ UNCHANGED <<dbStations, dbSessions, dbBookings, dbUsers, stations,
                   activeSessions, nextStation>>
    /\ UNCHANGED <<authVars, loggedInUser, clock, adminSubmit, userProfile>>

\* submit of the #booking-form of the open modal: startCharging(dataset.id)
BookingFormSubmit(t) ==
    /\ tasks[t].pc = "modal"
    /\ tasks' = [tasks EXCEPT ![t] = [@ EXCEPT !.pc = "start_get"]]
    /\ UNCHANGED <<dbStations, dbSessions, dbBookings, dbUsers, stations,
                   activeSessions, nextStation>>
    /\ UNCHANGED <<authVars, loggedInUser, clock, adminSubmit, userProfile>>

\* click on a .join-queue-btn of the station list: joinQueue(id)
JoinQueueClick(t, c, sid) ==
    /\ sid \in DOMAIN stations[c]
    /\ RenderStationList(c)[sid] = "Join Queue"
    /\ JoinQueue(t, c, sid)

\* the station documents the store may hold: any status, any slots the
\* form accepts, a queue that is empty or holds a user
StationDocs ==
    {[total |-> n, available |-> a, queue |-> q, pricePerKwh |-> MaxPrice,
      currentPrice |-> Absent, status |-> st] :
        n \in TotalInputs, a \in AvailableInputs,
        q \in {<<>>} \cup {<<u>> : u \in Users}, st \in StatusInputs}

\* every station exists; the clients' listeners have not delivered yet
InitList ==
    /\ dbStations \in [StationIds -> {d \in StationDocs : d.available <= d.total}]
    /\ dbSessions = <<>>
    /\ dbBookings = <<>>
    /\ dbUsers = [u \in Users |-> NewUserDoc("user")]
    /\ stations = [c \in Clients |-> <<>>]
    /\ activeSessions = [c \in Clients |-> {}]
    /\ tasks = [t \in Tasks |-> NewTask]
    /\ nextStation = MaxStations
    /\ loggedInUser = [c \in Clients |-> FirstUser(c)]
    /\ now = 0
    /\ skew = [c \in Clients |-> 0]
    /\ adminSubmit = NoSubmit
    /\ userProfile = LoadedProfiles
    /\ SettledAuth

\* the user of one client acts on the buttons the station list offers while
\* the administrator edits the stations, status included
NextList ==
    \/ StationDocsSnapshot("c1")
    \/ \E t \in Tasks, sid \in StationIds : BookSlotClick(t, "c1", sid)
    \/ \E t \in Tasks : BookingFormSubmit(t)
    \/ \E t \in Tasks : StartGet(t)
    \/ \E t \in Tasks : StartCommit(t)
    \/ \E t \in Tasks, sid \in StationIds : JoinQueueClick(t, "c1", sid)
    \/ \E sid \in StationIds, totalSlots \in TotalInputs,
          availableSlots \in AvailableInputs, pricePerKwh \in ListPrices,
          status \in StatusInputs :
          AdminStationSubmit(sid, totalSlots, availableSlots, pricePerKwh, status)

SpecList == InitList /\ [][NextList]_vars

(* ---- delivery of the station snapshots ---- *)
\* the store is empty; a user is signed in on the first client and nobody
\* on the others
InitSync ==
    /\ dbStations = <<>>
    /\ dbSessions = <<>>
    /\ dbBookings = <<>>
    /\ dbUsers = [u \in Users |-> NewUserDoc("user")]
    /\ stations = [c \in Clients |-> <<>>]
    /\ activeSessions = [c \in Clients |-> {}]
    /\ tasks = [t \in Tasks |-> NewTask]
    /\ nextStation = 0
    /\ loggedInUser = [c \in Clients |-> IF c = "c1" THEN FirstUser(c) ELSE NoUser]
    /\ now = 0
    /\ skew = [c \in Clients |-> 0]
    /\ adminSubmit = NoSubmit
    /\ userProfile = LoadedProfiles
    /\ SettledAuth

\* the administrator saves the edit form of a station with the price typed
\* and the status selected anew and the slot fields as the store holds them
AdminDetailsEdit(sid, pricePerKwh, status) ==
    /\ Exists(dbStations, sid)
    /\ AdminStationSubmit(sid, dbStations[sid].total, dbStations[sid].available,
                          pricePerKwh, status)

\* every kind of write to a station document: the administrator creates
\* stations, edits their price and status and deletes them, the user
\* queues, starts and stops (slots.available); the listener of a signed-in
\* client delivers
NextSync ==
    \/ \E pricePerKwh \in PriceInputs, status \in StatusInputs :
          AdminStationSubmit(NoId, MaxSlots, MaxSlots, pricePerKwh, status)
    \/ \E sid \in StationIds, pricePerKwh \in PriceInputs, status \in StatusInputs :
          AdminDetailsEdit(sid, pricePerKwh, status)
    \/ \E sid \in StationIds : DeleteStation(sid)
    \/ \E t \in Tasks, sid \in StationIds : JoinQueue(t, "c1", sid)
    \/ \E t \in Tasks, sid \in StationIds : StartCharging(t, "c1", sid)
    \/ \E t \in Tasks : StartGet(t)
    \/ \E t \in Tasks : StartCommit(t)
    \/ \E t \in Tasks, sessId \in SessionIds : StopCharging(t, "c1", sessId)
    \/ \E t \in Tasks : StopGet(t)
    \/ \E t \in Tasks : StopTxn(t)
    \/ \E c \in Clients : StationDocsSnapshot(c)

\* a subscribed onSnapshot listener is called after every change of the
\* collection it listens to
FairSync == \A c \in Clients : WF_vars(StationDocsSnapshot(c))

SpecSync == InitSync /\ [][NextSync]_vars /\ FairSync

(* ---- stopping a session while the administrator manages its station ---- *)
\* the user of the first client starts and stops sessions; the
\* administrator edits and deletes the stations; the listeners deliver
NextStop ==
    \/ \E t \in Tasks, sid \in StationIds : StartCharging(t, "c1", sid)
    \/ \E t \in Tasks : StartGet(t)
    \/ \E t \in Tasks : StartCommit(t)
    \/ \E t \in Tasks, sessId \in SessionIds : StopCharging(t, "c1", sessId)
    \/ \E t \in Tasks : StopGet(t)
    \/ \E t \in Tasks : StopTxn(t)
    \/ \E c \in Clients : StationsSnapshot(c)
    \/ \E sid \in StationIds, totalSlots \in TotalInputs,
          availableSlots \in AvailableInputs, pricePerKwh \in ListPrices,
          status \in ListStatus :
          AdminStationSubmit(sid, totalSlots, availableSlots, pricePerKwh, status)
    \/ \E sid \in StationIds : DeleteStation(sid)

\* the store stays available: every pending read and transaction of a
\* handler is answered, and the subscribed listeners are called
FairStop ==
    /\ \A t \in Tasks : WF_vars(StartGet(t)) /\ WF_vars(StartCommit(t))
    /\ \A t \in Tasks : WF_vars(StopGet(t)) /\ WF_vars(StopTxn(t))
    /\ \A c \in Clients : WF_vars(StationsSnapshot(c))

SpecStop == InitStart /\ [][NextStop]_vars /\ FairStop

(* ---- vocabulary of the properties ---- *)
Min(a, b) == IF a < b THEN a ELSE b

Committed(t, op) == tasks[t].op = op /\ tasks[t].res = "committed"

\* the startCharging calls issued against station sid, and those that committed
StartsOn(sid) == {t \in Tasks : tasks[t].op = "startCharging" /\ tasks[t].stationId = sid}
StartsCommittedOn(sid) == {t \in StartsOn(sid) : tasks[t].res = "committed"}

\* the activeSessions documents of station sid
Occupied(sid) == {k \in DOMAIN dbSessions : dbSessions[k].stationId = sid}

\* the committed stopCharging transactions on session sessId
StopsCommittedOn(sessId) ==
    {t \in Tasks : Committed(t, "stopCharging") /\ tasks[t].sessionId = sessId}

AllDone == \A t \in Tasks : tasks[t].pc = "done"

IsPrefix(p, q) == Len(p) <= Len(q) /\ \A i \in 1..Len(p) : p[i] = q[i]

\* steps of the handlers, recognised by the move of the invocation
StartCommitStep(t) ==
    tasks[t].pc = "start_commit" /\ tasks'[t].pc = "done" /\ tasks'[t].res = "committed"

StopCommitStep(t) ==
    tasks[t].pc = "stop_txn" /\ tasks'[t].pc = "done" /\ tasks'[t].res = "committed"

StopFailStep(t) ==
    tasks[t].pc \in {"stop_get", "stop_txn"} /\ tasks'[t].pc = "done"
    /\ tasks'[t].res # "committed"

JoinStep(t) ==
    tasks[t].pc = "new" /\ tasks'[t].pc = "done" /\ tasks'[t].op = "joinQueue"

\* a step of a startCharging or stopCharging call (issue, read, commit, retry)
ChargingStep(t) ==
    /\ tasks'[t].pc # tasks[t].pc
    /\ tasks'[t].op \in {"startCharging", "stopCharging"}

\* the peak override if it is set and higher than the base price, else the
\* base price
PeakOrBasePrice(stationData) ==
    IF /\ stationData.currentPrice # Absent
       /\ stationData.currentPrice[1] > stationData.pricePerKwh
    THEN stationData.currentPrice[1]
    ELSE stationData.pricePerKwh

\* the override if it is set and not zero, else the base price
SetOrBasePrice(stationData) ==
    IF /\ stationData.currentPrice # Absent
       /\ stationData.currentPrice[1] # 0
    THEN stationData.currentPrice[1]
    ELSE stationData.pricePerKwh

\* the fraction a / b times the integer n
Times(fraction, n) == [num |-> fraction.num * n, den |-> fraction.den]

\* the pricing fields of a station document
Pricing(station) ==
    [pricePerKwh |-> station.pricePerKwh, currentPrice |-> station.currentPrice]

(* ---- C1 ---- *)
\* C1: in every reachable state every station has 0 <= slots.available <=
\* slots.total.
C1_AvailableWithinTotal ==
    \A sid \in DOMAIN dbStations :
        /\ 0 <= dbStations[sid].available
        /\ dbStations[sid].available <= dbStations[sid].total

C3_NoSlotsNeverDecrements ==
    [][\A t \in Tasks :
          LET sid == tasks[t].stationId IN
          /\ StartCommitStep(t) =>
                /\ dbStations[sid].available > 0
                /\ dbStations'[sid].available = dbStations[sid].available - 1
                /\ ~Exists(dbSessions, t) /\ Exists(dbSessions', t)
          /\ ( /\ tasks[t].pc \in {"start_get", "start_commit"}
               /\ tasks'[t] # tasks[t]
               /\ Exists(dbStations, sid)
               /\ dbStations[sid].available <= 0 ) =>
                /\ UNCHANGED store
                /\ tasks'[t].pc = "done" => tasks'[t].res = "No available slots!"
      ]_vars

\* C3 witness: a call has failed with 'No available slots!' on a station
\* whose slots.available was below zero.
C3_Witness ==
    \E t \in Tasks :
        /\ tasks[t].op = "startCharging"
        /\ tasks[t].res = "No available slots!"
        /\ tasks[t].readAvail < 0

(* ---- C4 ---- *)
\* C4: a stopCharging transaction that commits leaves the session deleted,
\* slots.available of the owning station one higher, the user's loyalty
\* points 10 higher and one more booking, all in the same step; a
\* stopCharging call that fails writes nothing; and no other step deletes a
\* session or appends a booking.
C4_StopAllOrNothing ==
    [][/\ \A t \in Tasks :
             LET sid == tasks[t].stationId
                 uid == tasks[t].userRef
             IN
             /\ StopCommitStep(t) =>
                   /\ ~Exists(dbSessions', tasks[t].sessionId)
                   /\ Exists(dbStations, sid) /\ Exists(dbStations', sid)
                   /\ dbStations'[sid].available = dbStations[sid].available + 1
                   /\ dbUsers'[uid].loyaltyPoints = dbUsers[uid].loyaltyPoints + LoyaltyAward
                   /\ (DOMAIN dbBookings') = (DOMAIN dbBookings) \cup {t}
                   /\ ~Exists(dbBookings, t)
                   /\ dbBookings'[t].userId = tasks[t].userId
                   /\ dbBookings'[t].stationId = sid
             /\ StopFailStep(t) => UNCHANGED store
       /\ ( \/ dbBookings' # dbBookings
            \/ (DOMAIN dbSessions) \ (DOMAIN dbSessions') # {} ) =>
             \E t \in Tasks : StopCommitStep(t)
      ]_vars

\* C4 witness: one stopCharging call has committed and another has been
\* rejected by the store at its transaction.
C4_Witness ==
    /\ \E t \in Tasks : Committed(t, "stopCharging")
    /\ \E t \in Tasks : tasks[t].res = "Failed to stop session."

(* ---- C5 ---- *)
\* C5: for every session, at most one stopCharging transaction on it ever
\* commits, so its slot is given back once, one booking is appended and 10
\* loyalty points are awarded for it.
C5_StopTakesEffectOnce ==
    \A sessId \in SessionIds : Cardinality(StopsCommittedOn(sessId)) <= 1

(* ---- C6 ---- *)
\* C6: in every reachable state, for every station, the number of
\* activeSessions documents of the station equals slots.total -
\* slots.available.
C6_OccupiedIsTotalMinusAvailable ==
    \A sid \in DOMAIN dbStations :
        Cardinality(Occupied(sid)) = dbStations[sid].total - dbStations[sid].available

(* ---- C7 ---- *)
\* C7: slots.available of an existing station changes only in the step in
\* which a startCharging or a stopCharging transaction on that station
\* commits.
C7_AvailableOnlyByTransactions ==
    [][\A sid \in (DOMAIN dbStations) \cap (DOMAIN dbStations') :
          dbStations'[sid].available # dbStations[sid].available =>
             \E t \in Tasks :
                 /\ StartCommitStep(t) \/ StopCommitStep(t)
                 /\ tasks[t].stationId = sid
      ]_vars

(* ---- C8 ---- *)
\* C8: in every reachable state no station's queue holds the same user
\* identifier twice.
C8_QueueHasNoDuplicates ==
    \A sid \in DOMAIN dbStations :
        LET q == dbStations[sid].queue IN
        \A i, j \in 1..Len(q) : i # j => q[i] # q[j]

\* C8 witness: a user who was already in the queue has called joinQueue on
\* the station again, and the queue holds two users.
C8_Witness ==
    \E t \in Tasks :
        /\ tasks[t].op = "joinQueue"
        /\ tasks[t].was
        /\ Exists(dbStations, tasks[t].stationId)
        /\ Len(dbStations[tasks[t].stationId].queue) = 2

(* ---- C9 ---- *)
\* C9: the queue of a station only ever grows at its end (the old queue is a
\* prefix of the new one); a joinQueue by a user who is not in the queue
\* makes the queue the old one with that user appended; and the position
\* displayed for a queued user, indexOf + 1, is the user's place in the
\* queue counted from 1.
C9_QueueIsFifo ==
    [][/\ \A sid \in (DOMAIN dbStations) \cap (DOMAIN dbStations') :
             IsPrefix(dbStations[sid].queue, dbStations'[sid].queue)
       /\ \A t \in Tasks :
             LET sid == tasks'[t].stationId
                 uid == Uid(tasks'[t].client)
             IN
             ( JoinStep(t) /\ Exists(dbStations, sid)
               /\ ~Includes(dbStations[sid].queue, uid) ) =>
                 dbStations'[sid].queue = Append(dbStations[sid].queue, uid)
       /\ \A sid \in DOMAIN dbStations' :
             LET q == dbStations'[sid].queue IN
             \A i \in 1..Len(q) : IndexOf(q, q[i]) + 1 = i
      ]_vars

\* C9 witness: two users have joined the queue of a station, and the one
\* who joined second is displayed at position 2.
C9_Witness ==
    \E t1, t2 \in Tasks :
        /\ t1 < t2
        /\ tasks[t1].op = "joinQueue" /\ tasks[t2].op = "joinQueue"
        /\ tasks[t1].stationId = tasks[t2].stationId
        /\ tasks[t1].client # tasks[t2].client
        /\ Exists(dbStations, tasks[t1].stationId)
        /\ LET q == dbStations[tasks[t1].stationId].queue IN
           /\ Len(q) = 2
           /\ IndexOf(q, Uid(tasks[t2].client)) + 1 = 2

(* ---- C10 ---- *)
\* C10: a joinQueue step changes nothing but the queue of its station: no
\* station is created or deleted, every station keeps its slots.total and
\* slots.available, every other station keeps its queue, and the
\* activeSessions, bookings and users collections are unchanged.
C10_JoinQueueReservesNothing ==
    [][\A t \in Tasks :
          JoinStep(t) =>
             /\ UNCHANGED <<dbSessions, dbBookings, dbUsers>>
             /\ DOMAIN dbStations' = DOMAIN dbStations
             /\ \A sid \in DOMAIN dbStations :
                   /\ dbStations'[sid].total = dbStations[sid].total
                   /\ dbStations'[sid].available = dbStations[sid].available
                   /\ sid # tasks'[t].stationId =>
                         dbStations'[sid].queue = dbStations[sid].queue
      ]_vars

\* C10 witness: a user has joined the queue of a station that has no free
\* slot and an active session.
C10_Witness ==
    \E t \in Tasks :
        /\ tasks[t].op = "joinQueue"
        /\ tasks[t].res = "You've been added to the queue."
        /\ ~tasks[t].was
        /\ Exists(dbStations, tasks[t].stationId)
        /\ dbStations[tasks[t].stationId].available = 0
        /\ Occupied(tasks[t].stationId) # {}
        /\ Includes(dbStations[tasks[t].stationId].queue, Uid(tasks[t].client))

(* ---- C11 ---- *)
\* C11: no step of a startCharging or stopCharging call changes the queue
\* of any station, and the step in which a stopCharging commits creates no
\* activeSessions document.
C11_NoQueuePromotion ==
    [][\A t \in Tasks :
          /\ ChargingStep(t) =>
                \A sid \in (DOMAIN dbStations) \cap (DOMAIN dbStations') :
                    dbStations'[sid].queue = dbStations[sid].queue
          /\ StopCommitStep(t) => (DOMAIN dbSessions') \subseteq (DOMAIN dbSessions)
      ]_vars

\* C11 witness: a stopCharging has freed a slot of a station that a user had
\* queued for before the stop was issued; the user is still queued and the
\* station has no active session.
C11_Witness ==
    \E t1, t2 \in Tasks :
        /\ t1 < t2
        /\ tasks[t1].op = "joinQueue" /\ tasks[t1].res = "You've been added to the queue."
        /\ Committed(t2, "stopCharging")
        /\ tasks[t2].stationId = tasks[t1].stationId
        /\ Exists(dbStations, tasks[t1].stationId)
        /\ dbStations[tasks[t1].stationId].queue # <<>>
        /\ dbStations[tasks[t1].stationId].available > 0
        /\ Occupied(tasks[t1].stationId) = {}

(* ---- C16 ---- *)
\* C16: a step of a stopCharging call taken while the session exists and
\* its owning station does not exist in the store writes nothing to the
\* store (the session stays, no booking, no loyalty points) and does not
\* commit; at its transaction the call ends as failed.
C16_StopFailsWithoutStation ==
    [][\A t \in Tasks :
          ( /\ tasks[t].op = "stopCharging"
            /\ tasks'[t].pc # tasks[t].pc
            /\ Exists(dbSessions, tasks[t].sessionId)
            /\ ~Exists(dbStations, dbSessions[tasks[t].sessionId].stationId) ) =>
               /\ UNCHANGED store
               /\ tasks'[t].res # "committed"
               /\ tasks[t].pc = "stop_txn" =>
                     tasks'[t].pc = "done" /\ tasks'[t].res = "Failed to stop session."
      ]_vars

\* C16 witness: a stopCharging call has failed at its transaction on a
\* session that still exists and whose station is gone from the store.
C16_Witness ==
    \E t \in Tasks :
        /\ tasks[t].op = "stopCharging"
        /\ tasks[t].res = "Failed to stop session."
        /\ Exists(dbSessions, tasks[t].sessionId)
        /\ ~Exists(dbStations, dbSessions[tasks[t].sessionId].stationId)
        /\ dbBookings = <<>>

(* ---- C17 ---- *)
\* C17: the read of a stopCharging call that finds no activeSessions
\* document with its session identifier ends the call with 'Session not
\* found!' and leaves the store unchanged.
C17_SessionNotFound ==
    [][\A t \in Tasks :
          ( /\ tasks[t].pc = "stop_get"
            /\ tasks'[t].pc # "stop_get"
            /\ ~Exists(dbSessions, tasks[t].sessionId) ) =>
               /\ tasks'[t].pc = "done"
               /\ tasks'[t].res = "Session not found!"
               /\ UNCHANGED store
      ]_vars

\* C17 witness: a stopCharging call has ended with 'Session not found!' on
\* a session that another stopCharging call had already ended.
C17_Witness ==
    \E t \in Tasks :
        /\ tasks[t].op = "stopCharging"
        /\ tasks[t].res = "Session not found!"
        /\ StopsCommittedOn(tasks[t].sessionId) # {}
        /\ Cardinality(DOMAIN dbBookings) = 1

(* ---- C18 ---- *)
\* C18: a step of a startCharging call taken while its station does not
\* exist in the store writes nothing to the store (no session and no
\* station is created); the read of the transaction then ends the call, and
\* the call ends with 'Station does not exist!'.
C18_StationDoesNotExist ==
    [][\A t \in Tasks :
          ( /\ tasks[t].op = "startCharging"
            /\ tasks'[t].pc # tasks[t].pc
            /\ ~Exists(dbStations, tasks[t].stationId) ) =>
               /\ UNCHANGED store
               /\ tasks[t].pc = "start_get" => tasks'[t].pc = "done"
               /\ tasks'[t].pc = "done" => tasks'[t].res = "Station does not exist!"
      ]_vars

\* C18 witness: a startCharging call has ended with 'Station does not
\* exist!' on a station that had been created and deleted, after reading it
\* once while it existed.
C18_Witness ==
    \E t \in Tasks :
        /\ tasks[t].op = "startCharging"
        /\ tasks[t].res = "Station does not exist!"
        /\ tasks[t].stationId \in AdminKnown
        /\ tasks[t].readAvail > 0
        /\ dbSessions = <<>>

(* ---- C20 ---- *)
\* C20: in every step every existing booking document stays in the
\* bookings collection with every field unchanged.
C20_LedgerAppendOnly ==
    [][\A id \in DOMAIN dbBookings :
          /\ Exists(dbBookings', id)
          /\ dbBookings'[id] = dbBookings[id]
      ]_vars

\* C20 witness: a second booking has been added to a ledger that held one,
\* and every handler invocation has returned.
C20_Witness ==
    /\ Cardinality(DOMAIN dbBookings) = 2
    /\ AllDone

(* ---- C12 ---- *)
\* C12 (as claimed): every booking has kwhConsumed = (duration/3600) x 25
\* and cost = kwhConsumed x effectivePrice, where effectivePrice is the
\* currentPrice of the station the handler billed from if it is set and
\* greater than pricePerKwh, and pricePerKwh otherwise.
C12_CostByPeakPrice ==
    \A id \in DOMAIN dbBookings :
        LET booking == dbBookings[id] IN
        /\ booking.kwhConsumed = [num |-> booking.duration * ChargerKw,
                                  den |-> SecondsPerHour]
        /\ booking.cost = Times(booking.kwhConsumed, PeakOrBasePrice(tasks[id].stationData))

\* C12 (amended): every booking has kwhConsumed = (duration/3600) x 25 and
\* cost = kwhConsumed x effectivePrice, where effectivePrice is the
\* currentPrice of the station the handler billed from if it is set and not
\* zero (also when it is lower than or equal to pricePerKwh), and
\* pricePerKwh otherwise.
C12_CostBySetPrice ==
    \A id \in DOMAIN dbBookings :
        LET booking == dbBookings[id] IN
        /\ booking.kwhConsumed = [num |-> booking.duration * ChargerKw,
                                  den |-> SecondsPerHour]
        /\ booking.cost = Times(booking.kwhConsumed, SetOrBasePrice(tasks[id].stationData))

\* C12 witness: a session of a whole second or more has been billed on a
\* station whose currentPrice is set, not zero and lower than pricePerKwh.
C12_Witness ==
    \E id \in DOMAIN dbBookings :
        /\ dbBookings[id].duration > 0
        /\ tasks[id].stationData.currentPrice # Absent
        /\ tasks[id].stationData.currentPrice[1] > 0
        /\ tasks[id].stationData.currentPrice[1] < tasks[id].stationData.pricePerKwh

(* ---- C13 ---- *)
\* C13: every booking has duration >= 0, kwhConsumed >= 0 and cost >= 0.
C13_BookingNonNegative ==
    \A id \in DOMAIN dbBookings :
        /\ dbBookings[id].duration >= 0
        /\ dbBookings[id].kwhConsumed.num >= 0
        /\ dbBookings[id].cost.num >= 0

(* ---- C14 ---- *)
\* C14: the cost of the booking that a committing stopCharging adds is
\* its kwhConsumed times the price given by the pricing fields that the
\* owning station's document holds in the store at that commit.
C14_PriceAsStoredAtStop ==
    [][\A t \in Tasks :
          StopCommitStep(t) =>
             dbBookings'[t].cost =
                 Cost(dbBookings'[t].kwhConsumed, Pricing(dbStations[tasks[t].stationId]))
      ]_vars

(* ---- C15 ---- *)
\* C15: the step in which a stopCharging commits adds 10 to the loyalty
\* points of the user named by the session's userId, which is the userId of
\* the booking it adds, and leaves the points of every other user unchanged.
C15_LoyaltyToSessionOwner ==
    [][\A t \in Tasks :
          StopCommitStep(t) =>
             LET owner == tasks[t].userId IN
             /\ dbBookings'[t].userId = owner
             /\ dbUsers'[owner].loyaltyPoints = dbUsers[owner].loyaltyPoints + LoyaltyAward
             /\ \A u \in Users \ {owner} :
                   dbUsers'[u].loyaltyPoints = dbUsers[u].loyaltyPoints
      ]_vars

(* ---- C19 ---- *)
\* C19: a submit of the station form with available slots greater than
\* total slots shows the rejection and leaves the store unchanged; and the
\* step that creates a station comes from an "Add Station" submit with
\* available <= total and stores a document whose slots.total and
\* slots.available are the submitted values and whose queue is empty.
C19_AdminSubmitChecked ==
    [][/\ ( /\ adminSubmit' # adminSubmit
            /\ adminSubmit'.availableSlots > adminSubmit'.totalSlots ) =>
               /\ UNCHANGED store
               /\ adminSubmit'.toast = "Available slots cannot be greater than total slots."
       /\ nextStation' # nextStation =>
               LET id == nextStation' IN
               /\ adminSubmit'.stationId = NoId
               /\ adminSubmit'.toast = "Station created!"
               /\ adminSubmit'.availableSlots <= adminSubmit'.totalSlots
               /\ ~Exists(dbStations, id) /\ Exists(dbStations', id)
               /\ dbStations'[id].total = adminSubmit'.totalSlots
               /\ dbStations'[id].available = adminSubmit'.availableSlots
               /\ dbStations'[id].queue = <<>>
      ]_vars

\* C19 witness: the edit form of an existing station, which users have
\* queued for, has been submitted with more available than total slots and
\* was rejected; the station holds the slots it was created with.
C19_Witness ==
    /\ adminSubmit.stationId # NoId
    /\ Exists(dbStations, adminSubmit.stationId)
    /\ adminSubmit.availableSlots > adminSubmit.totalSlots
    /\ adminSubmit.toast = "Available slots cannot be greater than total slots."
    /\ dbStations[adminSubmit.stationId].queue # <<>>
    /\ dbStations[adminSubmit.stationId].available <= dbStations[adminSubmit.stationId].total

(* ---- C21 ---- *)
\* C21: each session identifier goes none -> active -> terminated only: a
\* session document appears only in the step in which the startCharging call
\* that owns the identifier commits, its userId and stationId never change
\* while it exists, it disappears only in a step in which a stopCharging
\* transaction on that session commits, and a session on which a
\* stopCharging has committed does not exist again.
C21_SessionLifecycle ==
    [][\A id \in SessionIds :
          /\ (~Exists(dbSessions, id) /\ Exists(dbSessions', id)) =>
                /\ StartCommitStep(id)
                /\ StopsCommittedOn(id) = {}
                /\ dbSessions'[id].userId = tasks[id].userId
                /\ dbSessions'[id].stationId = tasks[id].stationId
          /\ (Exists(dbSessions, id) /\ Exists(dbSessions', id)) =>
                /\ dbSessions'[id].userId = dbSessions[id].userId
                /\ dbSessions'[id].stationId = dbSessions[id].stationId
          /\ (Exists(dbSessions, id) /\ ~Exists(dbSessions', id)) =>
                \E t \in Tasks : StopCommitStep(t) /\ tasks[t].sessionId = id
          /\ (\E t \in Tasks : StopCommitStep(t) /\ tasks[t].sessionId = id) =>
                ~Exists(dbSessions', id)
          /\ StopsCommittedOn(id) # {} => ~Exists(dbSessions', id)
      ]_vars

\* C21 witness: one session has been started and terminated by a committed
\* stopCharging while another session, started by another call, is active.
C21_Witness ==
    \E t \in Tasks :
        /\ Committed(t, "stopCharging")
        /\ Committed(tasks[t].sessionId, "startCharging")
        /\ ~Exists(dbSessions, tasks[t].sessionId)
        /\ \E id \in DOMAIN dbSessions : id # tasks[t].sessionId

(* ---- C22 ---- *)
\* C22: one session per user is not enforced: a startCharging call of a
\* signed-in user that reads an existing station with a free slot goes on to
\* its commit whatever sessions the user owns, a start that commits adds its
\* session to those the user owns and removes none, and a start that fails
\* fails for the station or the sign-in, never for the user's sessions.
C22_StartIgnoresOwnSessions ==
    [][\A t \in Tasks :
          LET c == tasks[t].client
              sid == tasks[t].stationId
          IN
          /\ ( /\ tasks[t].pc = "start_get"
               /\ tasks'[t] # tasks[t]
               /\ Uid(c) # NoUser
               /\ Exists(dbStations, sid)
               /\ dbStations[sid].available > 0 ) =>
                tasks'[t].pc = "start_commit"
          /\ StartCommitStep(t) =>
                SessionsOf(dbSessions', tasks[t].userId)
                    = SessionsOf(dbSessions, tasks[t].userId) \cup {t}
          /\ ( /\ tasks[t].op = "startCharging"
               /\ tasks[t].pc # "done"
               /\ tasks'[t].pc = "done"
               /\ tasks'[t].res # "committed" ) =>
                tasks'[t].res \in {"Station does not exist!", "No available slots!",
                                   "TypeError"}
      ]_vars

\* C22 witness: one user owns two active sessions at the same station,
\* created by two startCharging calls of that user, and no stopCharging
\* call has been issued.
C22_Witness ==
    \E id1, id2 \in DOMAIN dbSessions :
        /\ id1 < id2
        /\ dbSessions[id1].userId = dbSessions[id2].userId
        /\ dbSessions[id1].stationId = dbSessions[id2].stationId
        /\ Committed(id1, "startCharging") /\ Committed(id2, "startCharging")
        /\ tasks[id1].client = tasks[id2].client
        /\ \A t \in Tasks : tasks[t].op # "stopCharging"

(* ---- C24 ---- *)
\* the classes and buttons of a client's station list as claimed
ListAsClaimed(c) ==
    \A sid \in DOMAIN stations[c] :
        LET station == stations[c][sid]
            text == GetStationStatus(station).text
            button == RenderStationList(c)[sid]
            operational == station.status = "Operational"
        IN
        /\ text \in {"Under Maintenance", "Busy", "Available"}
        /\ (text = "Under Maintenance") <=> ~operational
        /\ (text = "Busy") <=> (operational /\ station.available = 0)
        /\ (text = "Available") <=> (operational /\ station.available # 0)
        /\ (button = "Book Now") <=> (operational /\ station.available # 0)
        /\ (button = "Join Queue") <=>
              (operational /\ station.available = 0
                 /\ \A i \in 1..Len(station.queue) : station.queue[i] # Uid(c))
        /\ ~operational => button \notin {"Book Now", "Join Queue"}

\* C24: getStationStatus gives every station of a client's mirror exactly
\* one of three classes: 'Under Maintenance' when its status is not
\* Operational, whatever its slots; 'Busy' when it is Operational with
\* slots.available = 0; 'Available' otherwise. The station list offers
\* 'Book Now' for the Available stations and no others, 'Join Queue' for the
\* Busy stations whose queue does not hold the current user and no others,
\* and neither for a station under maintenance; a booking modal is opened
\* only on a station the mirror holds as Operational with slots.available
\* not 0, and a queue is joined only on one it holds as Operational with
\* slots.available = 0 and without the user in its queue.
C24_StationStatusClasses ==
    /\ [](\A c \in Clients : ListAsClaimed(c))
    /\ [][\A t \in Tasks :
             LET c == tasks'[t].client
                 sid == tasks'[t].stationId
             IN
             /\ (tasks[t].pc = "new" /\ tasks'[t].pc = "modal") =>
                   /\ sid \in DOMAIN stations[c]
                   /\ stations[c][sid].status = "Operational"
                   /\ stations[c][sid].available # 0
             /\ JoinStep(t) =>
                   /\ sid \in DOMAIN stations[c]
                   /\ stations[c][sid].status = "Operational"
                   /\ stations[c][sid].available = 0
                   /\ ~Includes(stations[c][sid].queue, Uid(c))
         ]_vars

\* C24 witness: a client's list shows a station under maintenance that has
\* no free slot, after the user of that client has joined its queue from
\* the list and while a booking modal, opened from the list, is open.
C24_Witness ==
    /\ \E c \in Clients : \E sid \in DOMAIN stations[c] :
          /\ stations[c][sid].status = "Maintenance"
          /\ stations[c][sid].available = 0
          /\ GetStationStatus(stations[c][sid]).text = "Under Maintenance"
          /\ \E t \in Tasks : /\ tasks[t].op = "joinQueue" /\ tasks[t].client = c
                              /\ tasks[t].res = "You've been added to the queue."
    /\ \E t \in Tasks : tasks[t].pc = "modal"

(* ---- C25 ---- *)
\* C25: a startCharging transaction never commits on a station whose
\* stored status is Maintenance at the commit.
C25_NoStartAtMaintenance ==
    [][\A t \in Tasks :
          StartCommitStep(t) => dbStations[tasks[t].stationId].status # "Maintenance"
      ]_vars

(* ---- C23 ---- *)
\* C23: whenever the stations mirror of a logged-in client differs from the
\* stations collection of the store, it eventually equals it: every
\* committed change of a station (slots, queue, status, price, creation,
\* deletion) is delivered to every logged-in client.
C23_SnapshotsDelivered ==
    \A c \in Clients :
        (Uid(c) # NoUser /\ stations[c] # dbStations) ~> (stations[c] = dbStations)

\* C23 witness: a station on which a session was started has been deleted
\* from the store and the mirror of the logged-in client, which held it, has
\* followed; the stopCharging issued from that mirror has failed.
C23_Witness ==
    /\ nextStation > 0
    /\ dbStations = <<>>
    /\ \A c \in Clients : stations[c] = dbStations
    /\ \E t \in Tasks : tasks[t].op = "stopCharging" /\ tasks[t].res = "TypeError"

(* ---- C27 ---- *)
\* C27: every active session can be terminated: once its owner has issued
\* stopCharging on a session that exists, the session is eventually
\* terminated and its slot released, whatever the administrator did to the
\* owning station in between.
C27_StopEventuallyCommits ==
    \A t \in Tasks :
        ( /\ tasks[t].pc = "stop_get"
          /\ Exists(dbSessions, tasks[t].sessionId)
          /\ dbSessions[tasks[t].sessionId].userId = Uid(tasks[t].client) )
            ~> ~Exists(dbSessions, tasks[t].sessionId)

(* ---- whole-profile writes ---- *)
\* updateUserProfile: update({ profile: userProfile }) replaces the stored
\* profile of the signed-in user by the client's copy; the role is kept
UpdateUserProfile(users, uid, profile) ==
    [users EXCEPT ![uid] =
        [role |-> @.role, favorites |-> profile.favorites,
         vehicle |-> profile.vehicle, theme |-> profile.theme,
         loyaltyPoints |-> profile.loyaltyPoints,
         hasCompletedTour |-> profile.hasCompletedTour]]

\* favorites.splice(index, 1) at the index of stationId, favorites.push(stationId)
\* when it is not in the list
ToggledFavorites(favorites, stationId) ==
    IF IndexOf(favorites, stationId) > -1
    THEN SelectSeq(favorites, LAMBDA f : f # stationId)
    ELSE Append(favorites, stationId)

\* toggleFavorite from the favourite button of a listed station, followed by
\* updateUserProfile
ToggleFavorite(c, stationId) ==
    /\ Uid(c) # NoUser
    /\ stationId \in DOMAIN stations[c]
    /\ userProfile' = [userProfile EXCEPT ![c] =
                          [@ EXCEPT !.favorites = ToggledFavorites(@, stationId)]]
    /\ dbUsers' = UpdateUserProfile(dbUsers, Uid(c), userProfile'[c])
    /\ UNCHANGED <<dbStations, dbSessions, dbBookings, stations, activeSessions,
                   tasks, nextStation>>
    /\ UNCHANGED <<authVars, loggedInUser, clock, adminSubmit>>

\* the change handler of the profile page's vehicle select, followed by
\* updateUserProfile
VehicleSelect(c, vehicle) ==
    /\ Uid(c) # NoUser
    /\ vehicle # userProfile[c].vehicle
    /\ userProfile' = [userProfile EXCEPT ![c] = [@ EXCEPT !.vehicle = vehicle]]
    /\ dbUsers' = UpdateUserProfile(dbUsers, Uid(c), userProfile'[c])
    /\ UNCHANGED <<dbStations, dbSessions, dbBookings, stations, activeSessions,
                   tasks, nextStation>>
    /\ UNCHANGED <<authVars, loggedInUser, clock, adminSubmit>>

\* endTour of the onboarding tour, which showAppView starts for a profile
\* that has not completed it
EndTour(c) ==
    /\ Uid(c) # NoUser
    /\ ~userProfile[c].hasCompletedTour
    /\ userProfile' = [userProfile EXCEPT ![c] = [@ EXCEPT !.hasCompletedTour = TRUE]]
    /\ dbUsers' = UpdateUserProfile(dbUsers, Uid(c), userProfile'[c])
    /\ UNCHANGED <<dbStations, dbSessions, dbBookings, stations, activeSessions,
                   tasks, nextStation>>
    /\ UNCHANGED <<authVars, loggedInUser, clock, adminSubmit>>

\* one account signed in on both clients, the stations with free slots
InitProfile ==
    /\ dbStations = [sid \in StationIds |->
                        [total |-> MaxSlots, available |-> MaxSlots,
                         queue |-> <<>>, pricePerKwh |-> MaxPrice,
                         currentPrice |-> Absent, status |-> "Operational"]]
    /\ dbSessions = <<>>
    /\ dbBookings = <<>>
    /\ dbUsers = [u \in Users |-> NewUserDoc("user")]
    /\ stations = [c \in Clients |-> MirrorOf(dbStations)]
    /\ activeSessions = [c \in Clients |-> {}]
    /\ tasks = [t \in Tasks |-> NewTask]
    /\ nextStation = MaxStations
    /\ loggedInUser = [c \in Clients |-> FirstUser("c1")]
    /\ now = 0
    /\ skew = [c \in Clients |-> 0]
    /\ adminSubmit = NoSubmit
    /\ userProfile = LoadedProfiles
    /\ SettledAuth

\* the account starts and stops sessions and changes its profile from both
\* clients
NextProfile ==
    \/ \E t \in Tasks, c \in Clients, sid \in StationIds : StartCharging(t, c, sid)
    \/ \E t \in Tasks : StartGet(t)
    \/ \E t \in Tasks : StartCommit(t)
    \/ \E t \in Tasks, c \in Clients, sessId \in SessionIds : StopCharging(t, c, sessId)
    \/ \E t \in Tasks : StopGet(t)
    \/ \E t \in Tasks : StopTxn(t)
    \/ \E c \in Clients, sid \in StationIds : ToggleFavorite(c, sid)
    \/ \E c \in Clients, vehicle \in VehicleInputs : VehicleSelect(c, vehicle)
    \/ \E c \in Clients : EndTour(c)

SpecProfile == InitProfile /\ [][NextProfile]_vars

(* ---- C26 ---- *)
\* C26: the stored profile.loyaltyPoints of a user always equals 10 x the
\* number of bookings recorded for that user, and no step decreases it,
\* whatever the interleaving of stopCharging with the whole-profile writes
\* of toggleFavorite, the vehicle select and the end of the tour, from one
\* or both clients of the user.
C26_LoyaltyPointsMatchBookings ==
    /\ [](\A u \in Users :
            dbUsers[u].loyaltyPoints =
                LoyaltyAward * Cardinality(BookingsOf(dbBookings, u)))
    /\ [][\A u \in Users :
            dbUsers'[u].loyaltyPoints >= dbUsers[u].loyaltyPoints]_vars

(* ---- accounts: registration, sign-in, sign-out, the auth-state callback ---- *)
\* the sequence without its i-th element
RemoveAt(seq, i) == SubSeq(seq, 1, i - 1) \o SubSeq(seq, i + 1, Len(seq))

\* a call of the onAuthStateChanged callback that Firebase has yet to make
AuthStateChanged(user) ==
    [kind |-> "authStateChanged", user |-> user, role |-> NoRole, pc |-> "notify"]
\* the promise of auth.signOut() in handleLogout, its then not yet run
SignOutPromise ==
    [kind |-> "signOut", user |-> NoUser, role |-> NoRole, pc |-> "then"]
\* the promise chain of handleRegister after createUserWithEmailAndPassword
Registration(uid, registerRole) ==
    [kind |-> "register", user |-> uid, role |-> registerRole, pc |-> "set"]

\* auth.signOut(): the observers are notified if a user was signed in, and the
\* promise resolves
AfterSignOut(queue, user) ==
    IF user = NoUser
    THEN Append(queue, SignOutPromise)
    ELSE Append(Append(queue, AuthStateChanged(NoUser)), SignOutPromise)

\* the click handlers of the login tab and the register tab
SwitchAuthTab(c, tabName) ==
    /\ view[c] = "auth"
    /\ authTab[c] # tabName
    /\ authTab' = [authTab EXCEPT ![c] = tabName]
    /\ UNCHANGED <<accounts, currentUser, loggedInRole, view, authSubmit,
                   stationsUnsubscribe, listeners, lastSnapshot, bookings, pending,
                   signIns>>
    /\ UNCHANGED <<store, stations, activeSessions, tasks, nextStation, loggedInUser,
                   clock, adminSubmit, userProfile>>

\* handleLogin with the credentials of an account other than the current
\* user: signInWithEmailAndPassword makes it the current user and the
\* observers are notified
HandleLogin(c, uid) ==
    /\ view[c] = "auth"
    /\ authTab[c] = "login"
    /\ uid \in accounts
    /\ uid # currentUser[c]
    /\ signIns < MaxSignIns
    /\ signIns' = signIns + 1
    /\ currentUser' = [currentUser EXCEPT ![c] = uid]
    /\ pending' = [pending EXCEPT ![c] = Append(@, AuthStateChanged(uid))]
    /\ authSubmit' = [authSubmit EXCEPT ![c] =
                         [form |-> "login", uid |-> uid, role |-> NoRole, toast |-> ""]]
    /\ UNCHANGED <<accounts, loggedInRole, view, authTab, stationsUnsubscribe,
                   listeners, lastSnapshot, bookings>>
    /\ UNCHANGED <<store, stations, activeSessions, tasks, nextStation, loggedInUser,
                   clock, adminSubmit, userProfile>>

\* handleRegister with a new e-mail address and a password of six characters
\* or more: createUserWithEmailAndPassword creates the account and signs it
\* in, the observers are notified, and the promise chain goes on to set the
\* users document
HandleRegister(c, uid, registerRole) ==
    /\ view[c] = "auth"
    /\ authTab[c] = "register"
    /\ uid \notin accounts
    /\ signIns < MaxSignIns
    /\ signIns' = signIns + 1
    /\ accounts' = accounts \cup {uid}
    /\ currentUser' = [currentUser EXCEPT ![c] = uid]
    /\ pending' = [pending EXCEPT ![c] =
                      Append(Append(@, AuthStateChanged(uid)),
                             Registration(uid, registerRole))]
    /\ authSubmit' = [authSubmit EXCEPT ![c] =
                         [form |-> "register", uid |-> uid, role |-> registerRole,
                          toast |-> ""]]
    /\ UNCHANGED <<loggedInRole, view, authTab, stationsUnsubscribe, listeners,
                   lastSnapshot, bookings>>
    /\ UNCHANGED <<store, stations, activeSessions, tasks, nextStation, loggedInUser,
                   clock, adminSubmit, userProfile>>

\* the users document of the registration is set
RegisterSet(c, i) ==
    /\ i \in DOMAIN pending[c]
    /\ pending[c][i].kind = "register" /\ pending[c][i].pc = "set"
    /\ dbUsers' = DocSet(dbUsers, pending[c][i].user, NewUserDoc(pending[c][i].role))
    /\ pending' = [pending EXCEPT ![c][i].pc = "then"]
    /\ UNCHANGED <<accounts, currentUser, loggedInRole, view, authTab, authSubmit,
                   stationsUnsubscribe, listeners, lastSnapshot, bookings, signIns>>
    /\ UNCHANGED <<dbStations, dbSessions, dbBookings, stations, activeSessions, tasks,
                   nextStation, loggedInUser, clock, adminSubmit, userProfile>>

\* the last then of handleRegister: the toast and switchAuthTab('login')
RegisterThen(c, i) ==
    /\ i \in DOMAIN pending[c]
    /\ pending[c][i].kind = "register" /\ pending[c][i].pc = "then"
    /\ authSubmit' = [authSubmit EXCEPT ![c].toast =
                         "Registration successful! Please log in."]
    /\ authTab' = [authTab EXCEPT ![c] = "login"]
    /\ pending' = [pending EXCEPT ![c] = RemoveAt(@, i)]
    /\ UNCHANGED <<accounts, currentUser, loggedInRole, view, stationsUnsubscribe,
                   listeners, lastSnapshot, bookings, signIns>>
    /\ UNCHANGED <<store, stations, activeSessions, tasks, nextStation, loggedInUser,
                   clock, adminSubmit, userProfile>>

\* handleLogout from the logout button of the user app or the admin app
HandleLogout(c) ==
    /\ view[c] \in {"user", "admin"}
    /\ Cardinality({i \in DOMAIN pending[c] : pending[c][i].kind = "signOut"}) < MaxSignOuts
    /\ currentUser' = [currentUser EXCEPT ![c] = NoUser]
    /\ pending' = [pending EXCEPT ![c] = AfterSignOut(@, currentUser[c])]
    /\ UNCHANGED <<accounts, loggedInRole, view, authTab, authSubmit,
                   stationsUnsubscribe, listeners, lastSnapshot, bookings, signIns>>
    /\ UNCHANGED <<store, stations, activeSessions, tasks, nextStation, loggedInUser,
                   clock, adminSubmit, userProfile>>

\* the then of handleLogout: the stations listener is detached
SignOutThen(c, i) ==
    /\ i \in DOMAIN pending[c]
    /\ pending[c][i].kind = "signOut"
    /\ listeners' = [listeners EXCEPT ![c] = IF stationsUnsubscribe[c] THEN @ - 1 ELSE @]
    /\ stationsUnsubscribe' = [stationsUnsubscribe EXCEPT ![c] = FALSE]
    /\ pending' = [pending EXCEPT ![c] = RemoveAt(@, i)]
    /\ UNCHANGED <<accounts, currentUser, loggedInRole, view, authTab, authSubmit,
                   lastSnapshot, bookings, signIns>>
    /\ UNCHANGED <<store, stations, activeSessions, tasks, nextStation, loggedInUser,
                   clock, adminSubmit, userProfile>>

\* Firebase calls the observer for the oldest change not yet notified. With a
\* user: loggedInUser = user, a new object without role, and the users
\* document is requested. With null: the else branch, which clears the
\* variables and calls showAppView
AuthStateNotify(c, i) ==
    /\ i \in DOMAIN pending[c]
    /\ pending[c][i].kind = "authStateChanged" /\ pending[c][i].pc = "notify"
    /\ \A j \in 1..(i - 1) : pending[c][j].pc # "notify"
    /\ loggedInUser' = [loggedInUser EXCEPT ![c] = pending[c][i].user]
    /\ loggedInRole' = [loggedInRole EXCEPT ![c] = NoRole]
    /\ IF pending[c][i].user # NoUser
       THEN /\ pending' = [pending EXCEPT ![c][i].pc = "get"]
            /\ UNCHANGED <<userProfile, stations, bookings, activeSessions, view>>
       ELSE /\ userProfile' = [userProfile EXCEPT ![c] = NoProfile]
            /\ stations' = [stations EXCEPT ![c] = <<>>]
            /\ bookings' = [bookings EXCEPT ![c] = {}]
            /\ activeSessions' = [activeSessions EXCEPT ![c] = {}]
            /\ view' = [view EXCEPT ![c] = ShowAppView(NoUser, NoRole)]
            /\ pending' = [pending EXCEPT ![c] = RemoveAt(@, i)]
    /\ UNCHANGED <<accounts, currentUser, authTab, authSubmit, stationsUnsubscribe,
                   listeners, lastSnapshot, signIns>>
    /\ UNCHANGED <<store, tasks, nextStation, clock, adminSubmit>>

\* fetchAndListenForStations: the listener the variable holds is detached
\* and a new one subscribed
ListenersAfterSubscribe(c) == (IF stationsUnsubscribe[c] THEN listeners[c] - 1 ELSE listeners[c]) + 1

\* the users document arrives at the callback. It exists: role and profile
\* are stored on whatever loggedInUser is by now (a TypeError ends the
\* callback if it is null), the stations listener is subscribed and
\* fetchUserData requests the bookings of loggedInUser.uid. It does not
\* exist: handleLogout
UserDocGet(c, i) ==
    /\ i \in DOMAIN pending[c]
    /\ pending[c][i].kind = "authStateChanged" /\ pending[c][i].pc = "get"
    /\ IF ~Exists(dbUsers, pending[c][i].user)
       THEN /\ currentUser' = [currentUser EXCEPT ![c] = NoUser]
            /\ pending' = [pending EXCEPT ![c] = AfterSignOut(RemoveAt(@, i), currentUser[c])]
            /\ UNCHANGED <<loggedInRole, userProfile, stationsUnsubscribe, listeners,
                           lastSnapshot>>
       ELSE IF Uid(c) = NoUser
       THEN /\ pending' = [pending EXCEPT ![c] = RemoveAt(@, i)]
            /\ UNCHANGED <<currentUser, loggedInRole, userProfile, stationsUnsubscribe,
                           listeners, lastSnapshot>>
       ELSE /\ loggedInRole' = [loggedInRole EXCEPT ![c] = dbUsers[pending[c][i].user].role]
            /\ userProfile' = [userProfile EXCEPT ![c] =
                                  ProfileOf(dbUsers[pending[c][i].user])]
            /\ listeners' = [listeners EXCEPT ![c] = ListenersAfterSubscribe(c)]
            /\ stationsUnsubscribe' = [stationsUnsubscribe EXCEPT ![c] = TRUE]
            /\ lastSnapshot' = [lastSnapshot EXCEPT ![c] = NoSnapshot]
            /\ pending' = [pending EXCEPT ![c][i] =
                              [@ EXCEPT !.pc = "bookings", !.user = Uid(c)]]
            /\ UNCHANGED currentUser
    /\ UNCHANGED <<accounts, view, authTab, authSubmit, bookings, signIns>>
    /\ UNCHANGED <<store, stations, activeSessions, tasks, nextStation, loggedInUser,
                   clock, adminSubmit>>

\* fetchUserData: the bookings arrive and are assigned, the reviews are
\* requested
BookingsGet(c, i) ==
    /\ i \in DOMAIN pending[c]
    /\ pending[c][i].pc = "bookings"
    /\ bookings' = [bookings EXCEPT ![c] = BookingsOf(dbBookings, pending[c][i].user)]
    /\ pending' = [pending EXCEPT ![c][i].pc = "reviews"]
    /\ UNCHANGED <<accounts, currentUser, loggedInRole, view, authTab, authSubmit,
                   stationsUnsubscribe, listeners, lastSnapshot, signIns>>
    /\ UNCHANGED <<store, stations, activeSessions, tasks, nextStation, loggedInUser,
                   clock, adminSubmit, userProfile>>

\* fetchUserData: the reviews arrive and the active sessions of
\* loggedInUser.uid are requested; with loggedInUser null that expression
\* throws, the catch logs it, and the callback goes on to showAppView
ReviewsGet(c, i) ==
    /\ i \in DOMAIN pending[c]
    /\ pending[c][i].pc = "reviews"
    /\ IF Uid(c) = NoUser
       THEN /\ view' = [view EXCEPT ![c] = ShowAppView(Uid(c), loggedInRole[c])]
            /\ pending' = [pending EXCEPT ![c] = RemoveAt(@, i)]
       ELSE /\ pending' = [pending EXCEPT ![c][i] =
                              [@ EXCEPT !.pc = "activeSessions", !.user = Uid(c)]]
            /\ UNCHANGED view
    /\ UNCHANGED <<accounts, currentUser, loggedInRole, authTab, authSubmit,
                   stationsUnsubscribe, listeners, lastSnapshot, bookings, signIns>>
    /\ UNCHANGED <<store, stations, activeSessions, tasks, nextStation, loggedInUser,
                   clock, adminSubmit, userProfile>>

\* fetchUserData: the active sessions arrive and are assigned; the callback
\* ends with showAppView
ActiveSessionsGet(c, i) ==
    /\ i \in DOMAIN pending[c]
    /\ pending[c][i].pc = "activeSessions"
    /\ activeSessions' = [activeSessions EXCEPT ![c] =
                             SessionsOf(dbSessions, pending[c][i].user)]
    /\ view' = [view EXCEPT ![c] = ShowAppView(Uid(c), loggedInRole[c])]
    /\ pending' = [pending EXCEPT ![c] = RemoveAt(@, i)]
    /\ UNCHANGED <<accounts, currentUser, loggedInRole, authTab, authSubmit,
                   stationsUnsubscribe, listeners, lastSnapshot, bookings, signIns>>
    /\ UNCHANGED <<store, stations, tasks, nextStation, loggedInUser, clock,
                   adminSubmit, userProfile>>

\* the onSnapshot callback of a subscribed listener: the first snapshot after
\* subscribing, or the stations as a later write left them
StationsOnSnapshot(c) ==
    /\ listeners[c] > 0
    /\ lastSnapshot[c] # MirrorOf(dbStations)
    /\ lastSnapshot' = [lastSnapshot EXCEPT ![c] = MirrorOf(dbStations)]
    /\ stations' = [stations EXCEPT ![c] = MirrorOf(dbStations)]
    /\ UNCHANGED <<accounts, currentUser, loggedInRole, view, authTab, authSubmit,
                   stationsUnsubscribe, listeners, bookings, pending, signIns>>
    /\ UNCHANGED <<store, activeSessions, tasks, nextStation, loggedInUser, clock,
                   adminSubmit, userProfile>>

\* one account with a completed and a running session at the only station;
\* nobody is signed in, every client shows the login tab
InitAccounts ==
    /\ dbStations = [sid \in StationIds |->
                        [total |-> MaxSlots,
                         available |-> IF sid = 1 THEN MaxSlots - 1 ELSE MaxSlots,
                         queue |-> <<>>, pricePerKwh |-> MaxPrice,
                         currentPrice |-> Absent, status |-> "Operational"]]
    /\ dbSessions = [k \in {2} |-> [userId |-> "u1", stationId |-> 1, startTime |-> 0]]
    /\ dbBookings = [k \in {1} |->
                        [userId |-> "u1", stationId |-> 1, createdAt |-> 0,
                         duration |-> 0, cost |-> 0, kwhConsumed |-> 0]]
    /\ dbUsers = [u \in {"u1"} |->
                     [NewUserDoc("user") EXCEPT !.loyaltyPoints = LoyaltyAward]]
    /\ stations = [c \in Clients |-> <<>>]
    /\ activeSessions = [c \in Clients |-> {}]
    /\ tasks = [t \in Tasks |-> NewTask]
    /\ nextStation = MaxStations
    /\ loggedInUser = [c \in Clients |-> NoUser]
    /\ now = 0
    /\ skew = [c \in Clients |-> 0]
    /\ adminSubmit = NoSubmit
    /\ userProfile = LoadedProfiles
    /\ SettledAuth

\* no queue of continuations grows longer: two for a registration, one more
\* for a sign-in, two for a sign-out
MaxPending == 3 * (MaxSignIns + MaxSignOuts)

\* one client registers, signs in and out; an administrator elsewhere
\* changes the price of a station
NextAccounts ==
    \/ \E tabName \in {"login", "register"} : SwitchAuthTab("c1", tabName)
    \/ \E uid \in Users : HandleLogin("c1", uid)
    \/ \E uid \in Users, registerRole \in Roles : HandleRegister("c1", uid, registerRole)
    \/ \E i \in 1..MaxPending : RegisterSet("c1", i)
    \/ \E i \in 1..MaxPending : RegisterThen("c1", i)
    \/ HandleLogout("c1")
    \/ \E i \in 1..MaxPending : SignOutThen("c1", i)
    \/ \E i \in 1..MaxPending : AuthStateNotify("c1", i)
    \/ \E i \in 1..MaxPending : UserDocGet("c1", i)
    \/ \E i \in 1..MaxPending : BookingsGet("c1", i)
    \/ \E i \in 1..MaxPending : ReviewsGet("c1", i)
    \/ \E i \in 1..MaxPending : ActiveSessionsGet("c1", i)
    \/ StationsOnSnapshot("c1")
    \/ \E sid \in StationIds, pricePerKwh \in PriceInputs : AdminPriceEdit(sid, pricePerKwh)

SpecAccounts == InitAccounts /\ [][NextAccounts]_vars

(* ---- C28 ---- *)
\* nothing is awaited on the client: no callback, promise or query pending
Quiet(c) == pending[c] = <<>>

\* C28: whenever loggedInUser is null on a client, with the sign-out's
\* promise resolved, the auth-state callback returned and no query
\* outstanding, the client's mirrors stations, bookings and activeSessions
\* are empty and no stations listener is subscribed; and no client ever has
\* more than one stations listener subscribed.
C28_SignedOutClientIsEmpty ==
    \A c \in Clients :
        /\ listeners[c] <= 1
        /\ (Uid(c) = NoUser /\ Quiet(c)) =>
              /\ stations[c] = <<>>
              /\ bookings[c] = {}
              /\ activeSessions[c] = {}
              /\ listeners[c] = 0

(* ---- C29 ---- *)
\* the registration submitted on the client has shown its success toast and
\* nothing is awaited on the client any more
RegistrationOver(c) ==
    /\ authSubmit[c].form = "register"
    /\ authSubmit[c].toast = "Registration successful! Please log in."
    /\ Quiet(c)

\* C29: when a successful registration is over on a client (its toast shown,
\* the auth-state callbacks it caused returned), the users document of the
\* new account exists with the chosen role and the default profile, nobody
\* is logged in on the client and the login tab is shown, whichever of the
\* callback's read and the registration's write of the document came first.
C29_RegistrationEndsLoggedOut ==
    [][\A c \in Clients :
          (~RegistrationOver(c) /\ RegistrationOver(c)') =>
             /\ Exists(dbUsers', authSubmit'[c].uid)
             /\ dbUsers'[authSubmit'[c].uid] = NewUserDoc(authSubmit'[c].role)
             /\ loggedInUser'[c] = NoUser
             /\ authTab'[c] = "login"
      ]_vars

(* ---- C30 ---- *)
\* the view of the claim for the user authenticated on a client: the app of
\* the role its users document stores, the auth screen for nobody
ViewOfStoredRole(c) ==
    IF currentUser[c] = NoUser \/ ~Exists(dbUsers, currentUser[c]) THEN "auth"
    ELSE dbUsers[currentUser[c]].role

\* C30: in every state where no auth-state callback, promise or query is
\* pending on a client, the view it shows is the one of the stored role of
\* the user authenticated on it: the admin panel only for role 'admin', the
\* user app only for role 'user', the auth screen exactly for nobody,
\* whatever the interleaving of sign-ins, sign-outs and the users-document
\* reads of overlapping callbacks before.
C30_ViewMatchesStoredRole ==
    \A c \in Clients : Quiet(c) => view[c] = ViewOfStoredRole(c)

====
